---- MODULE Spec2Model ----
(***************************************************************************)
(* Verification model of laplaque/instana_plugins:                         *)
(*   - common/process_monitor.py  (process discovery and aggregation)      *)
(*   - common/metadata_store.py   (metadata registry on SQLite)            *)
(*   - common/toml_utils.py       (metric catalog expansion)               *)
(* Percent values are fixed-point integers: inputs in thousandths of a     *)
(* percent, rounded outputs in hundredths.                                 *)
(***************************************************************************)
EXTENDS Integers, Sequences, FiniteSets, TLC

VARIABLES
    \* ---- process_monitor.get_process_metrics ----
    pm_pc,              \* "ready": a collection cycle is about to call get_process_metrics; "done": it returned
    ps_status,          \* outcome of the ps subprocess: "ok" | "called_process_error" | "other_error"
    snapshot,           \* the ps output: function pid -> line attributes
    process_map,        \* process_map of the last call: set of pids that were matched and parsed
    parent_processes,   \* parent_processes of the last call: sequence of pids
    metrics,            \* returned value of the last call: None or the metrics dictionary
    lookup_failures,    \* the per-pid lookups that fail in this cycle: pairs <<pid, lookup>>
    sub_metrics,        \* the entries of the returned dictionary that come from per-pid lookups
    \* ---- MetadataStore.sanitize_for_metrics ----
    san_pc,             \* "ready" | "once" | "twice": how often the input went through the function
    input_string,       \* the raw string, a sequence of characters
    san_result,         \* sanitize_for_metrics(input_string)
    san_again,          \* sanitize_for_metrics(san_result)
    \* ---- toml_utils.expand_metric_patterns ----
    toml_pc,            \* "ready" | "done"
    metric_definitions, \* the catalog: sequence of metric definition dictionaries
    cpu_count,          \* what os.cpu_count() answers (0 stands for None)
    expanded_metrics,   \* the list expand_metric_patterns returned
    \* ---- MetadataStore and its SQLite database file ----
    METADATA_SCHEMA_VERSION, \* the target schema version configured in manifest.toml
    db,                 \* the database file: tables, their rows, the columns of metrics
    clock,              \* datetime.now(): the next timestamp
    next_uuid,          \* uuid.uuid4(): the next fresh identifier
    stores,             \* per MetadataStore instance: constructed or not, metrics_columns cache
    pending,            \* per instance: the upsert between its SELECT and its INSERT/UPDATE
    ret,                \* per instance: what its last registry call returned
    first_id,           \* history: natural key -> identifier returned by its first successful upsert
    err_seen,           \* history: a storage error occurred in some upsert
    recon,              \* the catalog reconciliation in progress
    \* ---- MetadataStore.format_metric_value ----
    fmt_pc,             \* "ready" | "once" | "twice": how often the value went through the function
    value,              \* the raw metric value, in thousandths
    is_percentage,      \* the flags and the precision the metric is registered with
    is_counter,
    decimal_places,
    fmt_result,         \* format_metric_value(value, ...)
    fmt_again,          \* format_metric_value(fmt_result, ...) with the same flags
    \* ---- InstanaOTelConnector: record_metrics and the gauge callbacks ----
    otel_pc,            \* "ready" | "recorded" | "observed": position in a collection cycle
    recorded,           \* the dictionary handed to record_metrics: name -> value
    metrics_state,      \* _metrics_state: name -> number
    metrics_registry,   \* _metrics_registry: names that have an observable gauge
    observations,       \* what the callbacks yielded at the last export
    \* ---- base_sensor.monitor_process ----
    loop_pc,            \* position of monitor_process: "top" | "collecting" | "sleep" | "handler_sleep" | "shutdown" | "returned"
    run_once,           \* the run_once argument
    interval,           \* the interval argument, in time units
    cycles,             \* history: how many collection cycles have started
    last_result,        \* history: how the last cycle ended
    elapsed,            \* history: time since monitor_process was called
    finished_at         \* history: elapsed when the last cycle ended

pmVars == <<pm_pc, ps_status, snapshot, process_map, parent_processes, metrics,
           lookup_failures, sub_metrics>>

sanVars == <<san_pc, input_string, san_result, san_again>>

tomlVars == <<toml_pc, metric_definitions, cpu_count, expanded_metrics>>

dbVars == <<METADATA_SCHEMA_VERSION, db, clock, next_uuid, stores, pending, ret,
           first_id, err_seen, recon>>

fmtVars == <<fmt_pc, value, is_percentage, is_counter, decimal_places, fmt_result, fmt_again>>

otelVars == <<otel_pc, recorded, metrics_state, metrics_registry, observations>>

loopVars == <<loop_pc, run_once, interval, cycles, last_result, elapsed, finished_at>>

vars == <<pmVars, sanVars, tomlVars, dbVars, fmtVars, otelVars, loopVars>>

\* the variables outside the registry, and outside each of the pure functions
nonDbVars == <<pmVars, sanVars, tomlVars, fmtVars, otelVars, loopVars>>
nonPmVars == <<sanVars, tomlVars, dbVars, fmtVars, otelVars, loopVars>>
nonSanVars == <<pmVars, tomlVars, dbVars, fmtVars, otelVars, loopVars>>
nonTomlVars == <<pmVars, sanVars, dbVars, fmtVars, otelVars, loopVars>>
nonFmtVars == <<pmVars, sanVars, tomlVars, dbVars, otelVars, loopVars>>
nonOtelVars == <<pmVars, sanVars, tomlVars, dbVars, fmtVars, loopVars>>
nonLoopVars == <<pmVars, sanVars, tomlVars, dbVars, fmtVars, otelVars>>

\* Python None where a string is expected
None == "None"
\* Python None where get_process_metrics would return a dictionary
NoMetrics == [no_data |-> TRUE]

(***************************************************************************)
(*                      process_monitor.py                                 *)
(***************************************************************************)

\* pids that appear in a ps listing; "1" is the init process
Pids == {1, 10, 11}
\* parent pids a line may carry (0 is the kernel, parent of init)
PPids == {0, 1, 10, 11}
\* %CPU / %MEM readings of a line, in thousandths of a percent
CpuVals == {500, 1236}
MemVals == {100, 2005}
\* a line either does not match the name pattern ("nomatch"), matches and
\* parses into five fields with numeric cpu/mem ("match"), or matches but
\* has fewer than five fields or a non-numeric cpu/mem ("bad")
LineKinds == {"nomatch", "match", "bad"}

LineAttrs == [ppid : PPids, cpu : CpuVals, memory : MemVals, kind : LineKinds]

\* every ps listing: a line per listed pid, a process is never its own parent
Snapshots ==
    UNION { { f \in [S -> LineAttrs] : \A p \in S : f[p].ppid # p } : S \in SUBSET Pids }

\* ps --sort=-pcpu: lines by descending %CPU (ties by pid)
Before(snap, p, q) ==
    \/ snap[p].cpu > snap[q].cpu
    \/ snap[p].cpu = snap[q].cpu /\ p < q

RECURSIVE SortedLines(_, _)
SortedLines(snap, S) ==
    IF S = {} THEN <<>>
    ELSE LET first == CHOOSE p \in S : \A q \in S \ {p} : Before(snap, p, q)
         IN  <<first>> \o SortedLines(snap, S \ {first})

\* matching_processes: the lines process_regex.search() accepts, in listing order
MatchingProcesses(snap) ==
    SelectSeq(SortedLines(snap, DOMAIN snap), LAMBDA p : snap[p].kind # "nomatch")

\* the parsing loop: lines with fewer than 5 parts or unparsable floats are skipped
ParsedPids(snap) ==
    SelectSeq(MatchingProcesses(snap), LAMBDA p : snap[p].kind = "match")

SeqRange(s) == { s[i] : i \in 1..Len(s) }

\* the buggy variant where the init pid is no root marker
IsParentNoInit(snap, pmap, pid) == snap[pid].ppid \notin pmap

\* if ppid not in process_map or ppid == '1'
IsParent(snap, pmap, pid) ==
    \/ snap[pid].ppid \notin pmap
    \/ snap[pid].ppid = 1

ParentProcesses(snap) ==
    LET parsed == ParsedPids(snap)
    IN  SelectSeq(parsed, LAMBDA p : IsParent(snap, SeqRange(parsed), p))

\* Python round(x, 2) on a value given in thousandths; result in hundredths
Round2(t) ==
    LET q == t \div 10
        r == t % 10
    IN  IF r > 5 THEN q + 1
        ELSE IF r < 5 THEN q
        ELSE IF q % 2 = 0 THEN q ELSE q + 1

\* a buggy aggregation loop that runs over every parsed process
AggregatedPidsAll(snap) == ParsedPids(snap)

\* the pids the aggregation loop "for pid in parent_processes" visits
AggregatedPids(snap) == ParentProcesses(snap)

\* the aggregation loop: total_cpu += info['cpu'] ; total_memory += info['memory']
RECURSIVE Accumulate(_, _, _)
Accumulate(snap, pids, field) ==
    IF pids = <<>> THEN 0
    ELSE snap[Head(pids)][field] + Accumulate(snap, Tail(pids), field)

\* a buggy variant without the "if process_count == 0: return None" check
MetricsOfNoRootCheck(status, snap) ==
    IF status # "ok" THEN NoMetrics
    ELSE IF MatchingProcesses(snap) = <<>> THEN NoMetrics
    ELSE [ cpu_usage      |-> Round2(Accumulate(snap, AggregatedPids(snap), "cpu")),
           memory_usage   |-> Round2(Accumulate(snap, AggregatedPids(snap), "memory")),
           process_count  |-> Len(ParentProcesses(snap)),
           monitored_pids |-> AggregatedPids(snap) ]

\* the value get_process_metrics returns for a ps outcome and listing
MetricsOf(status, snap) ==
    IF status # "ok" THEN NoMetrics
    ELSE IF MatchingProcesses(snap) = <<>> THEN NoMetrics
    ELSE IF Len(ParentProcesses(snap)) = 0 THEN NoMetrics
    ELSE [ cpu_usage      |-> Round2(Accumulate(snap, AggregatedPids(snap), "cpu")),
           memory_usage   |-> Round2(Accumulate(snap, AggregatedPids(snap), "memory")),
           process_count  |-> Len(ParentProcesses(snap)),
           monitored_pids |-> AggregatedPids(snap) ]

\* the per-pid lookups of the aggregation loop, in the order of the loop:
\* get_disk_io_for_pid, get_file_descriptor_count, get_thread_count,
\* get_context_switches, get_process_cpu_per_core
Lookups == <<"disk_io", "file_descriptors", "threads", "context_switches", "cpu_per_core">>
LookupKinds == { Lookups[k] : k \in 1..Len(Lookups) }

\* what a lookup that works reads for a pid (per-core CPU in hundredths)
Reading(pid, lookup) ==
    CASE lookup = "disk_io" -> 100 * pid
      [] lookup = "file_descriptors" -> pid + 3
      [] lookup = "threads" -> pid + 1
      [] lookup = "context_switches" -> 7 * pid
      [] lookup = "cpu_per_core" -> 25 * pid

\* a buggy variant in which a failing lookup raises into the handler of the
\* loop body, which goes on with the next pid: the lookups after it are lost
LookupValueAborting(pid, lookup, failures) ==
    IF \E k \in 1..Len(Lookups) :
          /\ <<pid, Lookups[k]>> \in failures
          /\ \E j \in k..Len(Lookups) : Lookups[j] = lookup
    THEN 0 ELSE Reading(pid, lookup)

\* what a get_..._for_pid helper returns: its reading, or zero from its
\* own "except Exception" when the lookup fails
LookupValue(pid, lookup, failures) ==
    IF <<pid, lookup>> \in failures THEN 0 ELSE Reading(pid, lookup)

\* total_... += ... over the pids of the loop
RECURSIVE AccumulateLookup(_, _, _)
AccumulateLookup(pids, lookup, failures) ==
    IF pids = <<>> THEN 0
    ELSE LookupValue(Head(pids), lookup, failures)
         + AccumulateLookup(Tail(pids), lookup, failures)

\* parent_thread_counts
ThreadCounts(pids, failures) ==
    [k \in 1..Len(pids) |-> LookupValue(pids[k], "threads", failures)]

\* max(...) and min(...) of a non-empty list
MaxOf(counts) == CHOOSE m \in SeqRange(counts) : \A c \in SeqRange(counts) : c <= m
MinOf(counts) == CHOOSE m \in SeqRange(counts) : \A c \in SeqRange(counts) : m <= c

\* the entries of the dictionary that come from the per-pid lookups; the
\* write counter of /proc/<pid>/io is taken as twice the read counter, the
\* non-voluntary switches as one more than the voluntary ones; cpu_core_0
\* is in hundredths and 0 stands for a key that is left out, as it does
\* for the thread statistics of an empty parent_thread_counts
SubMetricsOf(status, snap, failures) ==
    IF MetricsOf(status, snap) = NoMetrics THEN NoMetrics
    ELSE LET pids == AggregatedPids(snap)
             counts == ThreadCounts(pids, failures)
         IN  [ disk_read_bytes |-> AccumulateLookup(pids, "disk_io", failures),
               disk_write_bytes |-> 2 * AccumulateLookup(pids, "disk_io", failures),
               open_file_descriptors |-> AccumulateLookup(pids, "file_descriptors", failures),
               thread_count |-> AccumulateLookup(pids, "threads", failures),
               voluntary_ctx_switches |-> AccumulateLookup(pids, "context_switches", failures),
               nonvoluntary_ctx_switches |->
                   AccumulateLookup(pids, "context_switches", failures)
                   + Cardinality({ k \in 1..Len(pids) :
                                     <<pids[k], "context_switches">> \notin failures }),
               max_threads_per_process |-> IF counts = <<>> THEN 0 ELSE MaxOf(counts),
               min_threads_per_process |-> IF counts = <<>> THEN 0 ELSE MinOf(counts),
               cpu_core_0 |-> AccumulateLookup(pids, "cpu_per_core", failures) ]

PsOutcomes == {"ok", "called_process_error", "other_error"}

\* a collection cycle: the operating system fixes what ps will answer
PmInit ==
    /\ pm_pc = "ready"
    /\ ps_status \in PsOutcomes
    /\ snapshot \in IF ps_status = "ok" THEN Snapshots ELSE { << >> }
    /\ process_map = {}
    /\ parent_processes = << >>
    /\ metrics = NoMetrics
    /\ lookup_failures = {}
    /\ sub_metrics = NoMetrics

\* one call of get_process_metrics(process_name)
get_process_metrics ==
    /\ pm_pc = "ready"
    /\ pm_pc' = "done"
    /\ process_map' =
          IF ps_status = "ok" /\ MatchingProcesses(snapshot) # <<>>
          THEN SeqRange(ParsedPids(snapshot)) ELSE {}
    /\ parent_processes' =
          IF ps_status = "ok" /\ MatchingProcesses(snapshot) # <<>>
          THEN ParentProcesses(snapshot) ELSE << >>
    /\ metrics' = MetricsOf(ps_status, snapshot)
    /\ sub_metrics' = SubMetricsOf(ps_status, snapshot, lookup_failures)
    /\ UNCHANGED <<ps_status, snapshot, lookup_failures>>

\* most lookups that fail in one cycle
MaxFailures == 2

\* listings in which every line matches and parses
CleanSnapshots ==
    { snap \in Snapshots : \A pid \in DOMAIN snap :
         snap[pid].kind = "match" /\ snap[pid].cpu = 500 /\ snap[pid].memory = 100 }

\* a collection cycle in which processes exit, or deny access, between the
\* listing and the lookups
PmInitLookups ==
    /\ pm_pc = "ready"
    /\ ps_status = "ok"
    /\ snapshot \in CleanSnapshots
    /\ process_map = {}
    /\ parent_processes = << >>
    /\ metrics = NoMetrics
    /\ lookup_failures \in { f \in SUBSET ((DOMAIN snapshot) \X LookupKinds) :
                               Cardinality(f) <= MaxFailures }
    /\ sub_metrics = NoMetrics

PmOff ==
    /\ pm_pc = "off"
    /\ ps_status = "ok"
    /\ snapshot = << >>
    /\ process_map = {}
    /\ parent_processes = << >>
    /\ metrics = NoMetrics
    /\ lookup_failures = {}
    /\ sub_metrics = NoMetrics

(***************************************************************************)
(*                 Claims about get_process_metrics                        *)
(***************************************************************************)

RECURSIVE SetSum(_, _, _)
SetSum(snap, S, field) ==
    IF S = {} THEN 0
    ELSE LET p == CHOOSE x \in S : TRUE
         IN  snap[p][field] + SetSum(snap, S \ {p}, field)

Units == SeqRange(parent_processes)

Listed(p) == metrics # NoMetrics /\ p \in SeqRange(metrics.monitored_pids)

\* C1 (as stated): a matched pid whose ppid is no matched pid is a unit; a
\* matched pid whose ppid is a matched pid is a descendant, is not counted
\* in process_count and is not listed in monitored_pids.
C1_AsStated ==
    pm_pc = "done" =>
        \A p \in process_map :
            /\ snapshot[p].ppid \notin process_map => p \in Units
            /\ snapshot[p].ppid \in process_map =>
                  /\ p \notin Units
                  /\ ~Listed(p)
                  /\ metrics # NoMetrics => metrics.process_count < Cardinality(process_map)

\* C1 (amended): a matched pid is a unit when its ppid is no matched pid or
\* is the init pid 1; a matched pid whose ppid is a matched pid other than 1
\* is a descendant, is not counted in process_count and is not listed in
\* monitored_pids.
C1_Classification ==
    pm_pc = "done" =>
        /\ \A p \in process_map :
              /\ (snapshot[p].ppid \notin process_map \/ snapshot[p].ppid = 1) => p \in Units
              /\ (snapshot[p].ppid \in process_map /\ snapshot[p].ppid # 1) =>
                    p \notin Units /\ ~Listed(p)
        /\ metrics # NoMetrics =>
              metrics.process_count =
                 Cardinality(process_map) -
                 Cardinality({ p \in process_map :
                                 snapshot[p].ppid \in process_map /\ snapshot[p].ppid # 1 })

\* a listing where init itself matches, one match is a child of init and
\* another match is a child of a matched process other than init
C1_Witness ==
    /\ pm_pc = "done"
    /\ 1 \in process_map
    /\ \E p \in process_map : snapshot[p].ppid = 1 /\ p \in Units
    /\ \E p \in process_map :
          snapshot[p].ppid \in process_map \ {1} /\ p \notin Units
    /\ metrics # NoMetrics

\* C2: process_count is the number of units, and cpu_usage / memory_usage
\* are the sums over the units only, rounded to two decimals.
C2_UnitSums ==
    (pm_pc = "done" /\ metrics # NoMetrics) =>
        /\ metrics.process_count = Cardinality(Units)
        /\ metrics.cpu_usage = Round2(SetSum(snapshot, Units, "cpu"))
        /\ metrics.memory_usage = Round2(SetSum(snapshot, Units, "memory"))

\* a snapshot with two units and a descendant was aggregated
C2_Witness ==
    /\ pm_pc = "done"
    /\ metrics # NoMetrics
    /\ Cardinality(Units) = 2
    /\ process_map \ Units # {}

NoLineMatches == \A p \in DOMAIN snapshot : snapshot[p].kind = "nomatch"

\* C3: when no line matches, or no matched process is a unit, or the ps
\* command fails, get_process_metrics returns None.
C3_NoData ==
    pm_pc = "done" =>
        ((ps_status # "ok" \/ NoLineMatches \/ Units = {}) => metrics = NoMetrics)

\* lines matched but none of them became a unit
C3_Witness ==
    /\ pm_pc = "done"
    /\ ps_status = "ok"
    /\ ~NoLineMatches
    /\ Units = {}
    /\ metrics = NoMetrics

\* the readings of a lookup summed over the units for which it works
RECURSIVE WorkingSum(_, _)
WorkingSum(S, lookup) ==
    IF S = {} THEN 0
    ELSE LET p == CHOOSE x \in S : TRUE
         IN  (IF <<p, lookup>> \in lookup_failures THEN 0 ELSE Reading(p, lookup))
             + WorkingSum(S \ {p}, lookup)

\* C27: a per-pid lookup that fails contributes zero for its sub-metric
\* only: every unit is counted in process_count and listed in
\* monitored_pids, cpu and memory are summed over all units, every
\* sub-metric is the sum of the readings of the lookups that work, and a
\* dictionary is returned.
C27_FailedLookupIsZero ==
    (pm_pc = "done" /\ ps_status = "ok" /\ parent_processes # << >>) =>
        /\ metrics # NoMetrics
        /\ sub_metrics # NoMetrics
        /\ metrics.process_count = Cardinality(Units)
        /\ SeqRange(metrics.monitored_pids) = Units
        /\ metrics.cpu_usage = Round2(SetSum(snapshot, Units, "cpu"))
        /\ metrics.memory_usage = Round2(SetSum(snapshot, Units, "memory"))
        /\ sub_metrics.disk_read_bytes = WorkingSum(Units, "disk_io")
        /\ sub_metrics.open_file_descriptors = WorkingSum(Units, "file_descriptors")
        /\ sub_metrics.thread_count = WorkingSum(Units, "threads")
        /\ sub_metrics.voluntary_ctx_switches = WorkingSum(Units, "context_switches")
        /\ sub_metrics.cpu_core_0 = WorkingSum(Units, "cpu_per_core")

\* two units were aggregated, the disk lookup of one of them failed and
\* nothing else: the disk counter is the reading of the other unit and the
\* thread count is the sum of both
C27_Witness ==
    /\ pm_pc = "done"
    /\ Cardinality(Units) = 2
    /\ \E p \in Units : lookup_failures = {<<p, "disk_io">>}
    /\ sub_metrics # NoMetrics
    /\ sub_metrics.disk_read_bytes > 0
    /\ sub_metrics.disk_read_bytes < 100 * (CHOOSE m \in Units : \A u \in Units : u <= m) + 100
    /\ sub_metrics.min_threads_per_process > 0
    /\ metrics.process_count = 2

(***************************************************************************)
(*              metadata_store.py: sanitize_for_metrics                    *)
(***************************************************************************)

\* longest raw string fed to sanitize_for_metrics
MaxLen == 3

\* characters of raw strings: a lower-case letter, an upper-case letter, a
\* digit, an underscore and another punctuation character
Chars == {"a", "A", "7", "_", "-"}

RawStrings == UNION { [1..n -> Chars] : n \in 0..MaxLen }

\* the inputs of test_sanitization.py quoted by the specification
ExampleStrings == { <<"1", "2", "3", "a", "b", "c">>, <<"A", "-", "-", "B", "_", "_", "C">> }

Digits == {"0", "1", "2", "3", "4", "5", "6", "7", "8", "9"}
LowerLetters == {"a", "b", "c", "d", "e", "f", "g", "h", "i", "j", "k", "l", "m",
                 "n", "o", "p", "q", "r", "s", "t", "u", "v", "w", "x", "y", "z"}

LowerAlphabet == <<"a", "b", "c", "d", "e", "f", "g", "h", "i", "j", "k", "l", "m",
                   "n", "o", "p", "q", "r", "s", "t", "u", "v", "w", "x", "y", "z">>
UpperAlphabet == <<"A", "B", "C", "D", "E", "F", "G", "H", "I", "J", "K", "L", "M",
                   "N", "O", "P", "Q", "R", "S", "T", "U", "V", "W", "X", "Y", "Z">>
UpperLetters == { UpperAlphabet[k] : k \in 1..26 }

\* str.lower() on one character
LowerChar(c) ==
    IF c \in UpperLetters
    THEN LowerAlphabet[CHOOSE k \in 1..26 : UpperAlphabet[k] = c]
    ELSE c

\* str.upper() on one character
UpperChar(c) ==
    IF c \in LowerLetters
    THEN UpperAlphabet[CHOOSE k \in 1..26 : LowerAlphabet[k] = c]
    ELSE c

\* 1. result = input_string.lower()
Lower(str) == [i \in 1..Len(str) |-> LowerChar(str[i])]

\* 2. re.sub(r'[^a-z0-9]', '_', result)
ReplaceNonAlnum(str) ==
    [i \in 1..Len(str) |-> IF str[i] \in LowerLetters \cup Digits THEN str[i] ELSE "_"]

\* 3. re.sub(r'_+', '_', result)
RECURSIVE CollapseUnderscores(_)
CollapseUnderscores(str) ==
    IF Len(str) <= 1 THEN str
    ELSE IF str[1] = "_" /\ str[2] = "_" THEN CollapseUnderscores(Tail(str))
    ELSE <<str[1]>> \o CollapseUnderscores(Tail(str))

RECURSIVE LStrip(_)
LStrip(str) ==
    IF str # <<>> /\ Head(str) = "_" THEN LStrip(Tail(str)) ELSE str

RECURSIVE RStrip(_)
RStrip(str) ==
    IF str # <<>> /\ str[Len(str)] = "_" THEN RStrip(SubSeq(str, 1, Len(str) - 1)) ELSE str

\* a buggy variant that trims the leading underscores only
StripLeadingOnly(str) == LStrip(str)

\* 4. result.strip('_')
StripUnderscores(str) == RStrip(LStrip(str))

metric_prefix == <<"m", "e", "t", "r", "i", "c", "_">>
unknown == <<"u", "n", "k", "n", "o", "w", "n">>

\* 5. if result and result[0].isdigit(): result = 'metric_' + result
PrefixIfDigit(str) ==
    IF str # <<>> /\ str[1] \in Digits THEN metric_prefix \o str ELSE str

\* 6. return result or 'unknown'
OrUnknown(str) == IF str = <<>> THEN unknown ELSE str

\* a buggy variant that tests for the leading digit before trimming the underscores
sanitize_prefix_before_strip(str) ==
    IF str = <<>> THEN unknown
    ELSE OrUnknown(StripUnderscores(PrefixIfDigit(
             CollapseUnderscores(ReplaceNonAlnum(Lower(str))))))

sanitize_for_metrics(str) ==
    IF str = <<>> THEN unknown
    ELSE OrUnknown(PrefixIfDigit(StripUnderscores(
             CollapseUnderscores(ReplaceNonAlnum(Lower(str))))))

SanInit ==
    /\ san_pc = "ready"
    /\ input_string \in RawStrings \cup ExampleStrings
    /\ san_result = <<>>
    /\ san_again = <<>>

SanOff ==
    /\ san_pc = "off"
    /\ input_string = <<>>
    /\ san_result = <<>>
    /\ san_again = <<>>

\* a caller sanitizes a raw name
Sanitize ==
    /\ san_pc = "ready"
    /\ san_pc' = "once"
    /\ san_result' = sanitize_for_metrics(input_string)
    /\ UNCHANGED <<input_string, san_again>>

\* a caller passes an already sanitized name through the function again
SanitizeAgain ==
    /\ san_pc = "once"
    /\ san_pc' = "twice"
    /\ san_again' = sanitize_for_metrics(san_result)
    /\ UNCHANGED <<input_string, san_result>>

\* C10: sanitize_for_metrics is idempotent: sanitizing a sanitized string
\* returns it unchanged.
C10_Idempotent == san_pc = "twice" => san_again = san_result

\* the round trip ran on an input that got the metric_ prefix, and on one
\* that sanitized to unknown
C10_Witness ==
    /\ san_pc = "twice"
    /\ \/ (input_string = <<"_", "7">> /\ san_result = metric_prefix \o <<"7">>)
       \/ (input_string = <<"-", "_">> /\ san_result = unknown)

\* C11: the result of sanitize_for_metrics is never empty, contains only
\* [a-z0-9_], starts with neither a digit nor an underscore, does not end
\* with an underscore and has no two consecutive underscores; the two
\* examples of the specification come out as stated.
C11_SixSteps ==
    san_pc \in {"once", "twice"} =>
        /\ san_result # <<>>
        /\ \A k \in 1..Len(san_result) : san_result[k] \in LowerLetters \cup Digits \cup {"_"}
        /\ san_result[1] \notin Digits \cup {"_"}
        /\ san_result[Len(san_result)] # "_"
        /\ \A k \in 1..(Len(san_result) - 1) : ~(san_result[k] = "_" /\ san_result[k + 1] = "_")
        /\ input_string = <<"1", "2", "3", "a", "b", "c">>
              => san_result = metric_prefix \o <<"1", "2", "3", "a", "b", "c">>
        /\ input_string = <<"A", "-", "-", "B", "_", "_", "C">>
              => san_result = <<"a", "_", "b", "_", "c">>
        /\ input_string = <<>> => san_result = unknown

\* an input that needs lower-casing, replacement, collapsing and trimming at
\* both ends was sanitized
C11_Witness ==
    /\ san_pc = "once"
    /\ input_string = <<"-", "A", "_">>
    /\ san_result = <<"a">>

(***************************************************************************)
(*        metadata_store.py: display names (_format_metric_name)           *)
(***************************************************************************)

Upper(str) == [i \in 1..Len(str) |-> UpperChar(str[i])]

\* str.capitalize(): first character upper-cased, the rest lower-cased
Capitalize(word) ==
    [i \in 1..Len(word) |-> IF i = 1 THEN UpperChar(word[i]) ELSE LowerChar(word[i])]

IsPrefix(pre, str) == Len(pre) <= Len(str) /\ SubSeq(str, 1, Len(pre)) = pre

\* the longest run of digits at the start of str (the group of \d+)
RECURSIVE LeadingDigits(_)
LeadingDigits(str) ==
    IF str # <<>> /\ Head(str) \in Digits
    THEN <<Head(str)>> \o LeadingDigits(Tail(str))
    ELSE <<>>

\* str.split(sep) for a one-character separator
RECURSIVE SplitOn(_, _)
SplitOn(str, sep) ==
    IF \A i \in 1..Len(str) : str[i] # sep THEN <<str>>
    ELSE LET k == CHOOSE i \in 1..Len(str) :
                     str[i] = sep /\ \A j \in 1..(i - 1) : str[j] # sep
         IN  <<SubSeq(str, 1, k - 1)>> \o SplitOn(SubSeq(str, k + 1, Len(str)), sep)

\* ' '.join(words)
RECURSIVE JoinWords(_)
JoinWords(words) ==
    IF words = <<>> THEN <<>>
    ELSE IF Len(words) = 1 THEN words[1]
    ELSE words[1] \o <<" ">> \o JoinWords(Tail(words))

cpu_core_ == <<"c", "p", "u", "_", "c", "o", "r", "e", "_">>
CPU == <<"C", "P", "U">>

\* name.replace('_', ' ')
UnderscoresToSpaces(str) == [i \in 1..Len(str) |-> IF str[i] = "_" THEN " " ELSE str[i]]

\* one word of display_name.split(): the word cpu (any case) is written
\* CPU by the re.sub and left alone, every other word is capitalized
FormatWord(word) == IF Upper(word) = CPU THEN CPU ELSE Capitalize(word)

\* _format_metric_name
format_metric_name(name) ==
    IF IsPrefix(cpu_core_, name)
       /\ LeadingDigits(SubSeq(name, Len(cpu_core_) + 1, Len(name))) # <<>>
    THEN CPU \o <<" ">> \o LeadingDigits(SubSeq(name, Len(cpu_core_) + 1, Len(name)))
    ELSE LET words == SelectSeq(SplitOn(UnderscoresToSpaces(name), " "),
                                LAMBDA w : w # <<>>)
         IN  JoinWords([k \in 1..Len(words) |-> FormatWord(words[k])])

python_marker == <<"p", "y", "t", "h", "o", "n">>

\* _extract_service_display_name: the part after ".python." if present,
\* else the last dot-separated segment, formatted
extract_service_display_name(full_name) ==
    LET parts == SplitOn(full_name, ".")
        marks == { k \in 2..(Len(parts) - 1) : parts[k] = python_marker }
        RECURSIVE JoinDots(_)
        JoinDots(ps) == IF Len(ps) = 1 THEN ps[1]
                        ELSE ps[1] \o <<".">> \o JoinDots(Tail(ps))
        first == CHOOSE k \in marks : \A j \in marks : k <= j
        rest == JoinDots(SubSeq(parts, first + 1, Len(parts)))
    IN  IF marks # {} /\ rest # <<>>
        THEN format_metric_name(rest)
        ELSE format_metric_name(parts[Len(parts)])

(***************************************************************************)
(*        metadata_store.py: the database file and schema migration        *)
(***************************************************************************)

\* latest timestamp datetime.now() hands out
MaxClock == 4
\* number of identifiers uuid.uuid4() hands out
MaxUuids == 4

\* MetadataStore instances (processes) that share the database file
Stores == {1, 2}

\* metadata_schema_version values of manifest.toml: the fallback and the current one
TargetVersions == {"1.0", "2.0"}

CanonicalTables ==
    {"schema_version", "hosts", "service_namespaces", "services", "metrics", "format_rules"}

\* columns of CREATE TABLE metrics in schema 1.0
MetricsColumnsV1 ==
    {"id", "service_id", "name", "display_name", "unit", "format_type", "decimal_places",
     "is_percentage", "is_counter", "first_seen", "last_seen"}

default_rules ==
    << [pattern |-> "cpu", replacement |-> "CPU", rule_type |-> "word_replacement", priority |-> 100],
       [pattern |-> "_", replacement |-> " ", rule_type |-> "character_replacement", priority |-> 50],
       [pattern |-> "word_start", replacement |-> "capitalize", rule_type |-> "word_formatting", priority |-> 10] >>

\* a database file that does not exist yet, or holds no table
EmptyDb ==
    [ tables |-> {},
      schema_version |-> <<>>,
      hosts |-> {},
      service_namespaces |-> {},
      services |-> {},
      metrics |-> {},
      format_rules |-> <<>>,
      metrics_columns |-> {} ]

\* SELECT version FROM schema_version ORDER BY updated_date DESC LIMIT 1:
\* the versions the query may answer (one of the rows with the latest
\* updated_date), None without the table or without a row
CurrentSchemaVersions(d) ==
    IF "schema_version" \notin d.tables \/ d.schema_version = <<>> THEN {None}
    ELSE { d.schema_version[k].version : k \in
             { k \in 1..Len(d.schema_version) :
                 \A j \in 1..Len(d.schema_version) :
                    d.schema_version[j].updated_date <= d.schema_version[k].updated_date } }

\* _set_schema_version: CREATE TABLE IF NOT EXISTS, then INSERT a row
set_schema_version(d, version, now) ==
    [d EXCEPT !.tables = @ \cup {"schema_version"},
              !.schema_version = Append(@, [version |-> version, created_date |-> now,
                                            updated_date |-> now])]

\* a buggy variant that creates the v1.0 tables next to what the file holds
migrate_to_version_1_0_keeping(d, now) ==
    set_schema_version(
        [d EXCEPT !.tables = @ \cup {"hosts", "service_namespaces", "services", "metrics",
                                     "format_rules"},
                  !.format_rules = default_rules,
                  !.metrics_columns = MetricsColumnsV1],
        "1.0", now)

\* _migrate_to_version_1_0: delete a file that has tables, create the v1.0
\* tables, seed the format rules, record version 1.0
migrate_to_version_1_0(d, now) ==
    set_schema_version(
        [EmptyDb EXCEPT !.tables = {"hosts", "service_namespaces", "services", "metrics",
                                    "format_rules"},
                        !.format_rules = default_rules,
                        !.metrics_columns = MetricsColumnsV1],
        "1.0", now)

\* 'bytes', 'switches', 'read', 'write' as substrings of name.lower()
Keywords == { <<"b", "y", "t", "e", "s">>, <<"s", "w", "i", "t", "c", "h", "e", "s">>, <<"r", "e", "a", "d">>, <<"w", "r", "i", "t", "e">> }

Contains(str, sub) ==
    \E k \in 0..(Len(str) - Len(sub)) : SubSeq(str, k + 1, k + Len(sub)) = sub

\* a buggy variant that looks for the keywords in the name as stored
InferredOtelTypeCaseSensitive(row) ==
    IF row.is_counter
    THEN IF \E kw \in Keywords : Contains(row.name, kw)
         THEN "Counter" ELSE "UpDownCounter"
    ELSE "Gauge"

\* the type inferred for an existing metric by the 1.0 -> 2.0 migration
InferredOtelType(row) ==
    IF row.is_counter
    THEN IF \E kw \in Keywords : Contains(Lower(row.name), kw)
         THEN "Counter" ELSE "UpDownCounter"
    ELSE "Gauge"

\* _migrate_to_version_2_0: add and back-fill otel_type unless the column
\* exists, record version 2.0
migrate_to_version_2_0(d, now) ==
    set_schema_version(
        IF "otel_type" \notin d.metrics_columns
        THEN [d EXCEPT !.metrics_columns = @ \cup {"otel_type"},
                       !.metrics = { [row EXCEPT !.otel_type = InferredOtelType(row)] : row \in @ }]
        ELSE d,
        "2.0", now)

\* number of datetime.now() readings _run_migrations takes
MigrationTicks(current_version, target_version) ==
    IF current_version = None THEN (IF target_version = "2.0" THEN 2 ELSE 1)
    ELSE IF current_version # target_version
         THEN (IF (current_version = "1.0" /\ target_version = "2.0") \/ target_version = "1.0"
               THEN 1 ELSE 0)
         ELSE 0

\* a buggy variant that records the version again on a current database
run_migrations_again(d, current_version, target_version, now) ==
    IF current_version = None
    THEN IF target_version = "2.0"
         THEN migrate_to_version_2_0(migrate_to_version_1_0(d, now), now + 1)
         ELSE migrate_to_version_1_0(d, now)
    ELSE IF current_version = "1.0" /\ target_version = "2.0"
         THEN migrate_to_version_2_0(d, now)
         ELSE IF target_version = "1.0"
              THEN migrate_to_version_1_0(d, now)
              ELSE set_schema_version(d, target_version, now)

\* _run_migrations, given the version _get_current_schema_version read
run_migrations(d, current_version, target_version, now) ==
    IF current_version = None
    THEN IF target_version = "2.0"
         THEN migrate_to_version_2_0(migrate_to_version_1_0(d, now), now + 1)
         ELSE migrate_to_version_1_0(d, now)
    ELSE IF current_version # target_version
         THEN IF current_version = "1.0" /\ target_version = "2.0"
              THEN migrate_to_version_2_0(d, now)
              ELSE IF target_version = "1.0"
                   THEN migrate_to_version_1_0(d, now)
                   ELSE d
         ELSE d

NoPending == [op |-> "none"]
NoReturn == [op |-> "none"]
NoRecon == [active |-> FALSE]

\* a MetadataStore that is not constructed (the process is not running)
NoStore == [up |-> FALSE, metrics_columns |-> {}, found_metrics |-> FALSE]

\* the registry is not in use
DbOff ==
    /\ METADATA_SCHEMA_VERSION = "2.0"
    /\ db = EmptyDb
    /\ clock = 0
    /\ next_uuid = 1
    /\ stores = [i \in Stores |-> NoStore]
    /\ pending = [i \in Stores |-> NoPending]
    /\ ret = [i \in Stores |-> NoReturn]
    /\ first_id = {}
    /\ err_seen = FALSE
    /\ recon = NoRecon

\* no database file yet, no process running; manifest.toml fixes the target version
DbInit ==
    /\ METADATA_SCHEMA_VERSION \in TargetVersions
    /\ db = EmptyDb
    /\ clock = 0
    /\ next_uuid = 1
    /\ stores = [i \in Stores |-> NoStore]
    /\ pending = [i \in Stores |-> NoPending]
    /\ ret = [i \in Stores |-> NoReturn]
    /\ first_id = {}
    /\ err_seen = FALSE
    /\ recon = NoRecon

\* MetadataStore(db_path): _init_db runs the migrations, then
\* _cache_metrics_schema caches the columns of the metrics table
\* (found_metrics notes whether the file already held metric rows)
Construct(i) ==
    /\ ~stores[i].up
    /\ \E current_version \in CurrentSchemaVersions(db) :
         LET ticks == MigrationTicks(current_version, METADATA_SCHEMA_VERSION)
             d2 == run_migrations(db, current_version, METADATA_SCHEMA_VERSION, clock)
         IN  /\ clock + ticks <= MaxClock
             /\ clock' = clock + ticks
             /\ db' = d2
             /\ stores' = [stores EXCEPT ![i] = [up |-> TRUE,
                                                 metrics_columns |-> d2.metrics_columns,
                                                 found_metrics |-> db.metrics # {}]]
             /\ ret' = [ret EXCEPT ![i] =
                   [op |-> "construct", current_version |-> current_version,
                    rows |-> Cardinality(db.services) + Cardinality(db.metrics)]]
    /\ UNCHANGED <<METADATA_SCHEMA_VERSION, next_uuid, pending, first_id, err_seen, recon>>

\* the process that owns the instance exits
Close(i) ==
    /\ stores[i].up
    /\ pending[i] = NoPending
    /\ ~recon.active
    /\ stores' = [stores EXCEPT ![i] = NoStore]
    /\ ret' = [ret EXCEPT ![i] = NoReturn]
    /\ UNCHANGED <<METADATA_SCHEMA_VERSION, db, clock, next_uuid, pending, first_id,
                   err_seen, recon>>

\* metadata_schema_version values a manifest.toml may carry: the two this
\* code migrates to and the one of a later release
ManifestVersions == TargetVersions \cup {"3.0"}

\* _run_migrations calls a migration function (it executes statements)
RunsMigration(current_version, target_version) ==
    \/ current_version = None
    \/ current_version # target_version
       /\ ((current_version = "1.0" /\ target_version = "2.0") \/ target_version = "1.0")

\* _run_migrations calls _migrate_to_version_1_0
RunsMigration1(current_version, target_version) ==
    \/ current_version = None
    \/ current_version # target_version /\ current_version # "1.0" /\ target_version = "1.0"

\* the database files a migration that raised may leave behind: the file
\* as it was, or no file when _migrate_to_version_1_0 had removed it
PartialMigrations(d, current_version, target_version) ==
    {d} \cup (IF RunsMigration1(current_version, target_version) /\ d.tables # {}
              THEN {EmptyDb} ELSE {})

\* MetadataStore(db_path) raises: a statement of a migration fails with
\* sqlite3.Error or OSError, the migration re-raises, no instance exists
ConstructFails(i) ==
    /\ ~stores[i].up
    /\ \E current_version \in CurrentSchemaVersions(db) :
          /\ RunsMigration(current_version, METADATA_SCHEMA_VERSION)
          /\ db' \in PartialMigrations(db, current_version, METADATA_SCHEMA_VERSION)
          /\ ret' = [ret EXCEPT ![i] = [op |-> "construct_raised",
                                        current_version |-> current_version]]
    /\ UNCHANGED <<METADATA_SCHEMA_VERSION, clock, next_uuid, stores, pending, first_id,
                   err_seen, recon>>

\* between two runs another release of the plug-in is installed: the module
\* constant is read from its manifest.toml at import
Reconfigure(version) ==
    /\ \A i \in Stores : ~stores[i].up
    /\ version # METADATA_SCHEMA_VERSION
    /\ METADATA_SCHEMA_VERSION' = version
    /\ ret' = [i \in Stores |-> NoReturn]
    /\ UNCHANGED <<db, clock, next_uuid, stores, pending, first_id, err_seen, recon>>

\* MetadataStore(db_path) when _get_current_schema_version catches
\* sqlite3.Error (the file is locked by a writer of another process, the
\* read fails) and returns None: _run_migrations goes on as if no version
\* were recorded
ConstructUnread(i) ==
    /\ ~stores[i].up
    /\ LET ticks == MigrationTicks(None, METADATA_SCHEMA_VERSION)
           d2 == run_migrations(db, None, METADATA_SCHEMA_VERSION, clock)
       IN  /\ clock + ticks <= MaxClock
           /\ clock' = clock + ticks
           /\ db' = d2
           /\ stores' = [stores EXCEPT ![i] = [up |-> TRUE,
                                               metrics_columns |-> d2.metrics_columns,
                                               found_metrics |-> db.metrics # {}]]
           /\ ret' = [ret EXCEPT ![i] =
                 [op |-> "construct_unread", current_version |-> None,
                  rows |-> Cardinality(db.services) + Cardinality(db.metrics)]]
    /\ UNCHANGED <<METADATA_SCHEMA_VERSION, next_uuid, pending, first_id, err_seen, recon>>

\* _run_migrations with the two readings of datetime.now() that a start on
\* a missing file takes (one in each _set_schema_version) given apart
run_migrations_at(d, current_version, target_version, now1, now2) ==
    IF current_version = None /\ target_version = "2.0"
    THEN migrate_to_version_2_0(migrate_to_version_1_0(d, now1), now2)
    ELSE run_migrations(d, current_version, target_version, now1)

\* MetadataStore(db_path) on a wall clock that has not advanced between
\* the two readings (datetime.now() promises no strictly later answer)
ConstructTied(i) ==
    /\ ~stores[i].up
    /\ \E current_version \in CurrentSchemaVersions(db) :
         LET ticks == MigrationTicks(current_version, METADATA_SCHEMA_VERSION)
             d2 == run_migrations_at(db, current_version, METADATA_SCHEMA_VERSION, clock, clock)
         IN  /\ clock + ticks <= MaxClock
             /\ clock' = clock + ticks
             /\ db' = d2
             /\ stores' = [stores EXCEPT ![i] = [up |-> TRUE,
                                                 metrics_columns |-> d2.metrics_columns,
                                                 found_metrics |-> db.metrics # {}]]
             /\ ret' = [ret EXCEPT ![i] =
                   [op |-> "construct", current_version |-> current_version,
                    rows |-> Cardinality(db.services) + Cardinality(db.metrics)]]
    /\ UNCHANGED <<METADATA_SCHEMA_VERSION, next_uuid, pending, first_id, err_seen, recon>>

\* no database file, no process running, any manifest
MigInit ==
    /\ METADATA_SCHEMA_VERSION \in ManifestVersions
    /\ db = EmptyDb
    /\ clock = 0
    /\ next_uuid = 1
    /\ stores = [i \in Stores |-> NoStore]
    /\ pending = [i \in Stores |-> NoPending]
    /\ ret = [i \in Stores |-> NoReturn]
    /\ first_id = {}
    /\ err_seen = FALSE
    /\ recon = NoRecon

(***************************************************************************)
(*        metadata_store.py: the get_or_create upserts                     *)
(***************************************************************************)

\* the natural key of a row; every key is <<service_id or 0, name>>
KeyOf(kind, row) ==
    CASE kind = "host"      -> <<0, row.hostname>>
      [] kind = "namespace" -> <<0, row.namespace>>
      [] kind = "service"   -> <<0, row.full_name>>
      [] kind = "metric"    -> <<row.service_id, row.name>>

TableOf(d, kind) ==
    CASE kind = "host"      -> d.hosts
      [] kind = "namespace" -> d.service_namespaces
      [] kind = "service"   -> d.services
      [] kind = "metric"    -> d.metrics

\* SELECT id ... WHERE <natural key> = ? ; fetchone(): the id, or 0 for no row
SelectId(d, kind, key) ==
    LET hits == { row \in TableOf(d, kind) : KeyOf(kind, row) = key }
    IN  IF hits = {} THEN 0 ELSE (CHOOSE row \in hits : TRUE).id

\* a schema without the UNIQUE constraints
UniqueViolationNever(d, kind, key) == FALSE

\* the UNIQUE constraint of the table on its natural key rejects an INSERT
UniqueViolation(d, kind, key) ==
    \E row \in TableOf(d, kind) : KeyOf(kind, row) = key

\* include_otel_type = self.metrics_columns and 'otel_type' in self.metrics_columns
IncludeOtelType(store) == "otel_type" \in store.metrics_columns

\* the INSERT or UPDATE statement cannot run on the current table layout
\* (it names the otel_type column and the metrics table has none)
StatementFails(d, store, p) ==
    p.op = "metric" /\ IncludeOtelType(store) /\ "otel_type" \notin d.metrics_columns

\* UPDATE hosts SET last_seen = ? WHERE id = ?
UpdateHost(d, id, now) ==
    [d EXCEPT !.hosts = { IF row.id = id THEN [row EXCEPT !.last_seen = now] ELSE row : row \in @ }]

InsertHost(d, id, hostname, now) ==
    [d EXCEPT !.hosts = @ \cup {[id |-> id, hostname |-> hostname,
                                 first_seen |-> now, last_seen |-> now]}]

UpdateNamespace(d, id, now) ==
    [d EXCEPT !.service_namespaces =
        { IF row.id = id THEN [row EXCEPT !.last_seen = now] ELSE row : row \in @ }]

InsertNamespace(d, id, namespace, now) ==
    [d EXCEPT !.service_namespaces = @ \cup {[id |-> id, namespace |-> namespace,
                                              first_seen |-> now, last_seen |-> now]}]

\* the UPDATE of the hit branch of get_or_create_service
UpdateService(d, id, p) ==
    [d EXCEPT !.services =
        { IF row.id = id
          THEN [row EXCEPT !.display_name = p.display_name,
                           !.version = p.version,
                           !.description = p.description,
                           !.host_id = p.host_id,
                           !.namespace_id = p.namespace_id,
                           !.last_seen = p.now]
          ELSE row : row \in @ }]

InsertService(d, id, p) ==
    [d EXCEPT !.services = @ \cup
        {[id |-> id, full_name |-> p.key[2], display_name |-> p.display_name,
          version |-> p.version, description |-> p.description, host_id |-> p.host_id,
          namespace_id |-> p.namespace_id, first_seen |-> p.now, last_seen |-> p.now]}]

\* the UPDATE built by _build_metrics_query('update', include_otel_type)
UpdateMetric(d, id, p, include_otel_type) ==
    [d EXCEPT !.metrics =
        { IF row.id = id
          THEN [row EXCEPT !.display_name = p.display_name,
                           !.unit = p.unit,
                           !.format_type = p.format_type,
                           !.decimal_places = p.decimal_places,
                           !.is_percentage = p.is_percentage,
                           !.otel_type = IF include_otel_type THEN p.otel_type ELSE row.otel_type,
                           !.last_seen = p.now]
          ELSE row : row \in @ }]

\* the INSERT built by _build_metrics_query('insert', include_otel_type);
\* a column the statement leaves out takes its DEFAULT
InsertMetric(d, id, p, include_otel_type) ==
    [d EXCEPT !.metrics = @ \cup
        {[id |-> id, service_id |-> p.key[1], name |-> p.key[2],
          display_name |-> p.display_name, unit |-> p.unit, format_type |-> p.format_type,
          decimal_places |-> p.decimal_places, is_percentage |-> p.is_percentage,
          is_counter |-> p.is_counter,
          otel_type |-> IF include_otel_type THEN p.otel_type
                        ELSE IF "otel_type" \in d.metrics_columns THEN "Gauge" ELSE None,
          first_seen |-> p.now, last_seen |-> p.now]}]

\* the hit branch: UPDATE the row whose id the SELECT found
UpdateRow(d, store, p) ==
    CASE p.op = "host"      -> UpdateHost(d, p.found, p.now)
      [] p.op = "namespace" -> UpdateNamespace(d, p.found, p.now)
      [] p.op = "service"   -> UpdateService(d, p.found, p)
      [] p.op = "metric"    -> UpdateMetric(d, p.found, p, IncludeOtelType(store))

\* the miss branch: INSERT a row under a fresh identifier
InsertRow(d, store, p, id) ==
    CASE p.op = "host"      -> InsertHost(d, id, p.key[2], p.now)
      [] p.op = "namespace" -> InsertNamespace(d, id, p.key[2], p.now)
      [] p.op = "service"   -> InsertService(d, id, p)
      [] p.op = "metric"    -> InsertMetric(d, id, p, IncludeOtelType(store))

\* a buggy hit branch that hands out a new identifier
ReturnedIdFresh(p, fresh) == fresh

\* the identifier the try block returns: the one found, else the new one
ReturnedId(p, fresh) == IF p.found # 0 THEN p.found ELSE fresh

\* an except branch that falls back to the identifier its SELECT found
FallbackIdFound(p, fresh) == IF p.found # 0 THEN p.found ELSE fresh

\* the identifier of the except branch: str(uuid.uuid4())
FallbackId(p, fresh) == fresh

\* the display name returned next to the identifier: both the try block and
\* the except branch derive it from the raw name; hosts and namespaces
\* return the identifier alone
ReturnedDisplayName(p) == IF p.op \in {"service", "metric"} THEN p.display_name ELSE <<>>

\* the statement after the SELECT raises sqlite3.Error: a failure of the
\* storage (storage_error), a statement that does not fit the table, or an
\* INSERT that violates the UNIQUE constraint
Raises(d, store, p, storage_error) ==
    \/ storage_error
    \/ StatementFails(d, store, p)
    \/ p.found = 0 /\ UniqueViolation(d, p.op, p.key)

\* history of the first identifier returned for a natural key
Remember(hist, kind, key, id) ==
    IF \E h \in hist : h.kind = kind /\ h.key = key THEN hist
    ELSE hist \cup {[kind |-> kind, key |-> key, id |-> id]}

Idle(i) == stores[i].up /\ pending[i] = NoPending

\* get_or_create_host / get_or_create_service_namespace in one piece, as
\* get_or_create_service calls them: the new database, the returned id and
\* whether an identifier was minted
NestedUpsert(d, kind, name, now, fresh, storage_error) ==
    LET found == SelectId(d, kind, <<0, name>>)
        p == [op |-> kind, key |-> <<0, name>>, found |-> found, now |-> now]
    IN  IF storage_error THEN [db |-> d, id |-> fresh, minted |-> 1, err |-> TRUE]
        ELSE IF found # 0
             THEN [db |-> UpdateRow(d, NoStore, p), id |-> found, minted |-> 0, err |-> FALSE]
             ELSE [db |-> InsertRow(d, NoStore, p, fresh), id |-> fresh, minted |-> 1,
                   err |-> FALSE]

\* a buggy variant that writes version and description as the caller gave them
ServiceRequestAsGiven(d, full_name, version, description, host_id, namespace_id, now) ==
    LET key == <<0, sanitize_for_metrics(full_name)>>
    IN  [op |-> "service", key |-> key,
         found |-> SelectId(d, "service", key),
         now |-> now,
         display_name |-> extract_service_display_name(full_name),
         version |-> version,
         description |-> description,
         host_id |-> host_id, namespace_id |-> namespace_id,
         given |-> [version |-> version, description |-> description]]

\* what get_or_create_service has in hand after its SELECTs: on a hit an
\* empty version or description is replaced by the stored one
ServiceRequest(d, full_name, version, description, host_id, namespace_id, now) ==
    LET key == <<0, sanitize_for_metrics(full_name)>>
        hits == { row \in d.services : KeyOf("service", row) = key }
        existing == CHOOSE row \in hits : TRUE
    IN  [op |-> "service", key |-> key,
         found |-> SelectId(d, "service", key),
         now |-> now,
         display_name |-> extract_service_display_name(full_name),
         version |-> IF hits # {} /\ version = "" THEN existing.version ELSE version,
         description |-> IF hits # {} /\ description = "" THEN existing.description
                         ELSE description,
         host_id |-> host_id, namespace_id |-> namespace_id,
         given |-> [version |-> version, description |-> description]]

\* what get_or_create_metric has in hand after its SELECT
MetricRequest(d, service_id, name, args, now) ==
    [op |-> "metric", key |-> <<service_id, name>>,
     found |-> SelectId(d, "metric", <<service_id, name>>), now |-> now,
     display_name |-> format_metric_name(name),
     unit |-> args.unit, format_type |-> args.format_type,
     decimal_places |-> args.decimal_places, is_percentage |-> args.is_percentage,
     is_counter |-> args.is_counter, otel_type |-> args.otel_type]

\* get_or_create_host(hostname) up to its SELECT
HostLookup(i, hostname) ==
    /\ Idle(i)
    /\ clock + 1 <= MaxClock
    /\ clock' = clock + 1
    /\ pending' = [pending EXCEPT ![i] =
          [op |-> "host", key |-> <<0, hostname>>,
           found |-> SelectId(db, "host", <<0, hostname>>), now |-> clock]]
    /\ ret' = [ret EXCEPT ![i] = NoReturn]
    /\ UNCHANGED <<METADATA_SCHEMA_VERSION, db, next_uuid, stores, first_id, err_seen, recon>>

\* get_or_create_service_namespace(namespace) up to its SELECT
NamespaceLookup(i, namespace) ==
    /\ Idle(i)
    /\ clock + 1 <= MaxClock
    /\ clock' = clock + 1
    /\ pending' = [pending EXCEPT ![i] =
          [op |-> "namespace", key |-> <<0, namespace>>,
           found |-> SelectId(db, "namespace", <<0, namespace>>), now |-> clock]]
    /\ ret' = [ret EXCEPT ![i] = NoReturn]
    /\ UNCHANGED <<METADATA_SCHEMA_VERSION, db, next_uuid, stores, first_id, err_seen, recon>>

\* get_or_create_service(...) up to its SELECT: the name is sanitized, the
\* display name derived from the raw name, host and namespace upserted when
\* given, then the service is looked up by its sanitized name
ServiceLookup(i, full_name, version, description, hostname, service_namespace, host_error, namespace_error) ==
    LET h == IF hostname # <<>>
             THEN NestedUpsert(db, "host", hostname, clock, next_uuid, host_error)
             ELSE [db |-> db, id |-> 0, minted |-> 0, err |-> FALSE]
        n == IF service_namespace # <<>>
             THEN NestedUpsert(h.db, "namespace", service_namespace,
                               clock + (IF hostname # <<>> THEN 1 ELSE 0),
                               next_uuid + h.minted, namespace_error)
             ELSE [db |-> h.db, id |-> 0, minted |-> 0, err |-> FALSE]
        ticks == (IF hostname # <<>> THEN 1 ELSE 0)
                 + (IF service_namespace # <<>> THEN 1 ELSE 0) + 1
    IN  /\ Idle(i)
        /\ hostname = <<>> => ~host_error
        /\ service_namespace = <<>> => ~namespace_error
        /\ clock + ticks <= MaxClock
        /\ next_uuid + h.minted + n.minted <= MaxUuids + 1
        /\ clock' = clock + ticks
        /\ next_uuid' = next_uuid + h.minted + n.minted
        /\ db' = n.db
        /\ pending' = [pending EXCEPT ![i] =
              ServiceRequest(n.db, full_name, version, description, h.id, n.id,
                             clock + ticks - 1)]
        /\ first_id' =
              LET f1 == IF hostname # <<>> /\ ~h.err
                        THEN Remember(first_id, "host", <<0, hostname>>, h.id) ELSE first_id
              IN  IF service_namespace # <<>> /\ ~n.err
                  THEN Remember(f1, "namespace", <<0, service_namespace>>, n.id) ELSE f1
        /\ err_seen' = (err_seen \/ h.err \/ n.err)
        /\ ret' = [ret EXCEPT ![i] = NoReturn]
        /\ UNCHANGED <<METADATA_SCHEMA_VERSION, stores, recon>>

\* get_or_create_metric(service_id, name, ...) up to its SELECT
MetricLookup(i, service_id, name, args) ==
    /\ Idle(i)
    /\ clock + 1 <= MaxClock
    /\ clock' = clock + 1
    /\ pending' = [pending EXCEPT ![i] = MetricRequest(db, service_id, name, args, clock)]
    /\ ret' = [ret EXCEPT ![i] = NoReturn]
    /\ UNCHANGED <<METADATA_SCHEMA_VERSION, db, next_uuid, stores, first_id, err_seen>>

\* the rest of a get_or_create call: UPDATE on a hit, INSERT on a miss,
\* commit and return; on sqlite3.Error nothing is written and a fresh,
\* unpersisted identifier is returned
FinishUpsert(i, storage_error) ==
    LET p == pending[i]
        raises == Raises(db, stores[i], p, storage_error)
        mints == raises \/ p.found = 0
        id == IF raises THEN FallbackId(p, next_uuid) ELSE ReturnedId(p, next_uuid)
    IN  /\ stores[i].up
        /\ p # NoPending
        /\ mints => next_uuid <= MaxUuids
        /\ next_uuid' = IF mints THEN next_uuid + 1 ELSE next_uuid
        /\ db' = IF raises THEN db
                 ELSE IF p.found # 0 THEN UpdateRow(db, stores[i], p)
                 ELSE InsertRow(db, stores[i], p, next_uuid)
        /\ pending' = [pending EXCEPT ![i] = NoPending]
        /\ ret' = [ret EXCEPT ![i] =
              [op |-> p.op, key |-> p.key, id |-> id, err |-> raises,
               display_name |-> ReturnedDisplayName(p),
               conflict |-> ~storage_error /\ ~StatementFails(db, stores[i], p) /\ raises]]
        /\ first_id' = IF raises THEN first_id ELSE Remember(first_id, p.op, p.key, id)
        /\ err_seen' = (err_seen \/ raises)
        /\ UNCHANGED <<METADATA_SCHEMA_VERSION, clock, stores, recon>>

\* a direct call of get_or_create_metric by the owner of the instance
GetOrCreateMetric(i, service_id, name, args) ==
    /\ ~recon.active
    /\ MetricLookup(i, service_id, name, args)
    /\ UNCHANGED recon

\* the names a catalog declares
CatalogNames(catalog) == { catalog[k].name : k \in 1..Len(catalog) }

\* a buggy variant that compares against nothing and removes every metric of the service
ObsoleteRowsAll(d, service_id, current_metric_names) ==
    { row \in d.metrics : row.service_id = service_id }

\* metrics_to_remove: rows of the service whose name is not in current_metric_names
ObsoleteRows(d, service_id, current_metric_names) ==
    { row \in d.metrics : row.service_id = service_id /\ row.name \notin current_metric_names }

\* a buggy variant that deletes by name in every service
DeleteRowsByName(d, rows) ==
    [d EXCEPT !.metrics = { row \in @ : \A gone \in rows : row.name # gone.name }]

\* DELETE FROM metrics WHERE id = ? for every row to remove
DeleteRows(d, rows) ==
    [d EXCEPT !.metrics = { row \in @ : \A gone \in rows : row.id # gone.id }]

\* remove_obsolete_metrics(service_id, current_metric_names): on
\* sqlite3.Error the transaction is rolled back and 0 is returned
RemoveObsoleteMetrics(i, service_id, current_metric_names, storage_error) ==
    LET rows == ObsoleteRows(db, service_id, current_metric_names)
    IN  /\ Idle(i)
        /\ db' = IF storage_error THEN db ELSE DeleteRows(db, rows)
        /\ ret' = [ret EXCEPT ![i] =
              [op |-> "remove_obsolete_metrics", service_id |-> service_id,
               names |-> current_metric_names,
               removed |-> IF storage_error THEN 0 ELSE Cardinality(rows),
               err |-> storage_error]]
        /\ UNCHANGED <<METADATA_SCHEMA_VERSION, clock, next_uuid, stores, pending, first_id,
                       err_seen>>

\* a direct call of remove_obsolete_metrics
RemoveObsolete(i, service_id, current_metric_names, storage_error) ==
    /\ ~recon.active
    /\ RemoveObsoleteMetrics(i, service_id, current_metric_names, storage_error)
    /\ UNCHANGED recon

\* sync_metric_from_toml: the arguments it hands to get_or_create_metric
SyncArgs(entry) ==
    [unit |-> entry.unit,
     format_type |-> IF entry.is_counter THEN "counter"
                     ELSE IF entry.is_percentage THEN "percentage" ELSE "number",
     decimal_places |-> entry.decimals,
     is_percentage |-> entry.is_percentage,
     is_counter |-> entry.is_counter,
     otel_type |-> entry.otel_type]

\* at its start the process reconciles the registry of its service with
\* its expanded catalog
StartReconcile(i, service_id, catalog) ==
    /\ Idle(i)
    /\ recon = NoRecon
    /\ recon' = [active |-> TRUE, store |-> i, service_id |-> service_id,
                 catalog |-> catalog, next |-> 1, failed |-> FALSE]
    /\ ret' = [ret EXCEPT ![i] = NoReturn]
    /\ UNCHANGED <<METADATA_SCHEMA_VERSION, db, clock, next_uuid, stores, pending, first_id,
                   err_seen>>

\* sync_metric_from_toml for the next entry of the catalog
ReconcileSync ==
    /\ recon.active
    /\ recon.next <= Len(recon.catalog)
    /\ MetricLookup(recon.store, recon.service_id, recon.catalog[recon.next].name,
                    SyncArgs(recon.catalog[recon.next]))
    /\ recon' = [recon EXCEPT !.next = @ + 1,
                              !.failed = @ \/ (ret[recon.store] # NoReturn
                                                /\ ret[recon.store].err)]
 
\* remove_obsolete_metrics closes the reconciliation
ReconcileRemove(storage_error) ==
    /\ recon.active
    /\ recon.next > Len(recon.catalog)
    /\ RemoveObsoleteMetrics(recon.store, recon.service_id, CatalogNames(recon.catalog),
                             storage_error)
    /\ recon' = [recon EXCEPT !.active = FALSE,
                              !.failed = @ \/ storage_error
                                           \/ (ret[recon.store] # NoReturn
                                                /\ ret[recon.store].err)]

(***************************************************************************)
(*        metadata_store.py: callers' arguments and the registry claims    *)
(***************************************************************************)

Hostnames == { <<"h", "1">> }
Namespaces == { <<"n", "s">> }

\* raw service names: both sanitize to the same full_name
ServiceNames == { <<"S", "v">>, <<"s", "v">> }

cpu_usage == <<"c", "p", "u", "_", "u", "s", "a", "g", "e">>
disk_read_bytes ==
    <<"d", "i", "s", "k", "_", "r", "e", "a", "d", "_", "b", "y", "t", "e", "s">>
cpu_core_0 == <<"c", "p", "u", "_", "c", "o", "r", "e", "_", "0">>
MetricNames == { cpu_usage, disk_read_bytes, cpu_core_0 }

\* the TOML attributes of the three metrics
CatalogEntry(name) ==
    IF name = disk_read_bytes
    THEN [name |-> name, unit |-> "bytes", otel_type |-> "Counter", decimals |-> 0,
          is_percentage |-> FALSE, is_counter |-> TRUE]
    ELSE [name |-> name, unit |-> "%", otel_type |-> "Gauge", decimals |-> 2,
          is_percentage |-> TRUE, is_counter |-> FALSE]

\* arguments of get_or_create_metric when the caller gives only the name
DefaultArgs ==
    [unit |-> "", format_type |-> "number", decimal_places |-> 2,
     is_percentage |-> FALSE, is_counter |-> FALSE, otel_type |-> "Gauge"]

\* arguments of direct get_or_create_metric calls: the defaults and the TOML ones
MetricArgs(name) == { DefaultArgs, SyncArgs(CatalogEntry(name)) }

\* the two services an earlier run of the process registered, by identifier
SeedServiceName(id) == IF id = -1 THEN <<"S", "v">> ELSE <<"d", "b">>
SeedServiceIds == {-1, -2}

\* identifier and timestamp of the metric the earlier run stored for a
\* service: identifiers and timestamps of the earlier run are negative
SeedMetricId(service_id, name) ==
    (IF service_id = -1 THEN -10 ELSE -20)
    - (CASE name = cpu_usage -> 1 [] name = disk_read_bytes -> 2 [] name = cpu_core_0 -> 3)
SeedMetricTime(service_id, name) == SeedMetricId(service_id, name) + 5

\* the database file an earlier run left behind: schema at the target
\* version, two services, the metrics named by pairs (service_id, name)
SeededDb(target_version, pairs) ==
    LET d0 == run_migrations(EmptyDb, None, target_version, -40)
        store == [up |-> TRUE, metrics_columns |-> d0.metrics_columns,
                  found_metrics |-> FALSE]
        d1 == InsertRow(d0, store,
                        ServiceRequest(d0, SeedServiceName(-1), "", "", 0, 0, -32), -1)
        d2 == InsertRow(d1, store,
                        ServiceRequest(d1, SeedServiceName(-2), "", "", 0, 0, -31), -2)
    IN  [d2 EXCEPT !.metrics = UNION {
            InsertRow(d2, store,
                      MetricRequest(d2, pair[1], pair[2], DefaultArgs,
                                    SeedMetricTime(pair[1], pair[2])),
                      SeedMetricId(pair[1], pair[2])).metrics : pair \in pairs }]

\* the process runs on a database file of an earlier run: its store is
\* constructed, the schema is current
DbSeeded ==
    /\ METADATA_SCHEMA_VERSION \in TargetVersions
    /\ \E pairs \in SUBSET (SeedServiceIds \X MetricNames) :
          db = SeededDb(METADATA_SCHEMA_VERSION, pairs)
    /\ clock = 0
    /\ next_uuid = 1
    /\ stores = [i \in Stores |->
                   IF i = 1 THEN [up |-> TRUE, metrics_columns |-> db.metrics_columns,
                                  found_metrics |-> db.metrics # {}]
                   ELSE NoStore]
    /\ pending = [i \in Stores |-> NoPending]
    /\ ret = [i \in Stores |-> NoReturn]
    /\ first_id = {}
    /\ err_seen = FALSE
    /\ recon = NoRecon

\* longest expanded catalog handed to a reconciliation
MaxCatalog == 2

\* expanded catalogs: entries with distinct names
ReconCatalogs ==
    { cat \in UNION { [1..n -> { CatalogEntry(name) : name \in MetricNames }] : n \in 0..MaxCatalog } :
        \A j, k \in 1..Len(cat) : j # k => cat[j].name # cat[k].name }

\* service identifiers a caller can hold
ServiceIds == { row.id : row \in db.services }

IsUpsert(r) == r.op \in {"host", "namespace", "service", "metric"}

\* a metric name in mixed case, as a caller of get_or_create_metric may pass it
Io_Write == <<"I", "o", "_", "W", "r", "i", "t", "e">>
UpgradeNames == { cpu_usage, disk_read_bytes, Io_Write }

\* tables of a release older than the schema_version log
LegacyTables == { "old_services", "old_metrics" }

\* identifier of the metric row an earlier run stored under a name
UpgradeMetricId(name) ==
    CASE name = cpu_usage -> -11 [] name = disk_read_bytes -> -12 [] name = Io_Write -> -13

\* the file a run of the 1.0 release left behind: one service and, for each
\* name of counters, a metric row; counters maps the name to its is_counter
V1Db(counters) ==
    LET d0 == run_migrations(EmptyDb, None, "1.0", -40)
        store == [up |-> TRUE, metrics_columns |-> d0.metrics_columns,
                  found_metrics |-> FALSE]
        d1 == InsertRow(d0, store,
                        ServiceRequest(d0, SeedServiceName(-1), "", "", 0, 0, -32), -1)
    IN  [d1 EXCEPT !.metrics = UNION {
            InsertRow(d1, store,
                      MetricRequest(d1, -1, name,
                                    [DefaultArgs EXCEPT !.is_counter = counters[name]],
                                    UpgradeMetricId(name) + 5),
                      UpgradeMetricId(name)).metrics : name \in DOMAIN counters }]

V1Dbs == { V1Db(counters) : counters \in UNION { [names -> BOOLEAN] : names \in SUBSET UpgradeNames } }

\* files without a recorded version that hold tables: tables of an older
\* release, with or without the tables and rows of a file whose
\* schema_version table was never written
LegacyDbs ==
    { [d EXCEPT !.tables = (@ \ {"schema_version"}) \cup legacy, !.schema_version = <<>>] :
        d \in {EmptyDb} \cup { V1Db(counters) : counters \in [{cpu_usage} -> BOOLEAN] },
        legacy \in (SUBSET LegacyTables) \ {{}} }

\* the process starts on a file that an earlier run, of whatever release, left
UpgradeInit ==
    /\ METADATA_SCHEMA_VERSION \in TargetVersions
    /\ db \in V1Dbs \cup LegacyDbs
              \cup { SeededDb(METADATA_SCHEMA_VERSION, {-1} \X names) : names \in SUBSET MetricNames }
    /\ clock = 0
    /\ next_uuid = 1
    /\ stores = [i \in Stores |-> NoStore]
    /\ pending = [i \in Stores |-> NoPending]
    /\ ret = [i \in Stores |-> NoReturn]
    /\ first_id = {}
    /\ err_seen = FALSE
    /\ recon = NoRecon

\* a construction step of instance i
Constructs(i) == ~stores[i].up /\ stores'[i].up

C5_StableIds ==
    ~err_seen =>
        \A i \in Stores : IsUpsert(ret[i]) =>
            \A h \in first_id :
                (h.kind = ret[i].op /\ h.key = ret[i].key) => ret[i].id = h.id

\* an instance constructed on a file that held the one metric row there is
\* got the first identifier of that metric back
C5_Witness ==
    /\ ~err_seen
    /\ \E j \in Stores :
          /\ stores[j].up /\ stores[j].found_metrics
          /\ Cardinality(db.metrics) = 1
          /\ ret[j].op = "metric"
          /\ \E h \in first_id :
                h.kind = "metric" /\ h.key = ret[j].key /\ h.id = ret[j].id
          /\ \E row \in db.metrics : row.id = ret[j].id /\ row.first_seen < row.last_seen

\* C6: whatever the interleaving of upserts of the instances sharing the
\* database file, no two rows of a table share the natural key.
C6_Unique ==
    \A kind \in {"host", "namespace", "service", "metric"} :
        \A r1, r2 \in TableOf(db, kind) :
            KeyOf(kind, r1) = KeyOf(kind, r2) => r1 = r2

\* two instances raced on one key: the later INSERT met the row of the earlier
C6_Witness ==
    \E i, j \in Stores :
        /\ i # j
        /\ IsUpsert(ret[i]) /\ IsUpsert(ret[j])
        /\ ret[i].op = ret[j].op /\ ret[i].key = ret[j].key
        /\ ~ret[i].err
        /\ ret[j].conflict
        /\ \E row \in TableOf(db, ret[i].op) : row.id = ret[i].id

\* metric names stored for a service
StoredNames(d, service_id) == { row.name : row \in { r \in d.metrics : r.service_id = service_id } }

\* the reconciliation of recon.catalog has just returned without a storage error
Reconciled ==
    /\ recon # NoRecon
    /\ ~recon.active
    /\ ~recon.failed
    /\ ret[recon.store].op = "remove_obsolete_metrics"

\* C7: after sync_metric_from_toml for every entry of the expanded catalog
\* and remove_obsolete_metrics with the catalog's names, without storage
\* error, the names stored for the service are exactly the catalog's names.
C7_Reconciled ==
    Reconciled => StoredNames(db, recon.service_id) = CatalogNames(recon.catalog)

\* a reconciliation created one metric and removed another that was stored before
C7_Witness ==
    /\ Reconciled
    /\ recon.catalog # <<>>
    /\ ret[recon.store].removed >= 1
    /\ \E row \in db.metrics : row.service_id = recon.service_id /\ row.first_seen = row.last_seen

\* a step in which remove_obsolete_metrics returns to instance i
Removes(i) == ret'[i].op = "remove_obsolete_metrics" /\ pending[i] = NoPending /\ pending'[i] = NoPending

\* C8: remove_obsolete_metrics deletes only rows of the given service whose
\* name is not in names, leaves every other metric row and every host,
\* namespace and service row unchanged, and returns the number of rows deleted.
C8_RemoveFrame ==
    [][ \A i \in Stores : (stores[i].up /\ Removes(i)) =>
          LET deleted == db.metrics \ db'.metrics
          IN  /\ db'.metrics \subseteq db.metrics
              /\ \A row \in deleted :
                    row.service_id = ret'[i].service_id /\ row.name \notin ret'[i].names
              /\ db'.hosts = db.hosts
              /\ db'.service_namespaces = db.service_namespaces
              /\ db'.services = db.services
              /\ ret'[i].removed = Cardinality(deleted) ]_vars

\* a call removed a metric while another service had a metric of the same name
C8_Witness ==
    \E i \in Stores :
        /\ ret[i].op = "remove_obsolete_metrics"
        /\ ret[i].removed >= 1
        /\ \E row \in db.metrics :
              row.service_id # ret[i].service_id /\ row.name \notin ret[i].names

UpsertKinds == {"host", "namespace", "service", "metric"}

ExpectedDisplayName(name) ==
    LET rest == SubSeq(name, Len(cpu_core_) + 1, Len(name))
        words == SelectSeq(SplitOn(UnderscoresToSpaces(name), " "), LAMBDA w : w # <<>>)
    IN  IF IsPrefix(cpu_core_, name) /\ rest # <<>> /\ LeadingDigits(rest) = rest
        THEN CPU \o <<" ", "C", "o", "r", "e", " ">> \o rest
        ELSE JoinWords([k \in 1..Len(words) |-> FormatWord(words[k])])

\* C16: the display name get_or_create_metric returns (that is,
\* _format_metric_name of the metric name) is "CPU Core <N>" for a metric
\* named cpu_core_<N>; any other name has its underscores replaced by
\* spaces, cpu written CPU and every other word capitalised.
C16_DisplayNames ==
    \A i \in Stores :
        ret[i].op = "metric" => ret[i].display_name = ExpectedDisplayName(ret[i].key[2])

\* C19: an upsert whose INSERT violated the unique constraint (another
\* instance inserted the same natural key after this one's lookup) returns
\* the identifier of the persisted row of that key.
C19_ConflictIsHit ==
    \A i \in Stores :
        (IsUpsert(ret[i]) /\ ret[i].conflict) =>
            \E row \in TableOf(db, ret[i].op) :
                KeyOf(ret[i].op, row) = ret[i].key /\ row.id = ret[i].id

\* C21: whenever the schema_version log holds a row, the version
\* _get_current_schema_version returns is the version of the row that was
\* appended last.
C21_LastAppended ==
    ("schema_version" \in db.tables /\ db.schema_version # <<>>) =>
        CurrentSchemaVersions(db) = {db.schema_version[Len(db.schema_version)].version}

\* C14: whatever schema version a startup finds and whatever target version
\* is configured, a constructed (usable) MetadataStore implies that the
\* current schema version of the database is the configured target.
C14_AtTarget ==
    \A i \in Stores : stores[i].up => CurrentSchemaVersions(db) = {METADATA_SCHEMA_VERSION}

\* C20: the schema_version log is append-only: every step keeps the rows
\* the log already holds, in place.
C20_AppendOnly ==
    [][ /\ Len(db'.schema_version) >= Len(db.schema_version)
        /\ SubSeq(db'.schema_version, 1, Len(db.schema_version)) = db.schema_version ]_vars

\* the otel_type the 1.0 -> 2.0 transition is to give a row
BackfilledType(row) ==
    IF ~row.is_counter THEN "Gauge"
    ELSE IF \/ Contains(Lower(row.name), <<"b", "y", "t", "e", "s">>)
            \/ Contains(Lower(row.name), <<"s", "w", "i", "t", "c", "h", "e", "s">>)
            \/ Contains(Lower(row.name), <<"r", "e", "a", "d">>)
            \/ Contains(Lower(row.name), <<"w", "r", "i", "t", "e">>)
         THEN "Counter"
         ELSE "UpDownCounter"

\* a construction that found version 1.0 and has target 2.0
Upgrades(i) ==
    /\ Constructs(i)
    /\ ret'[i].op = "construct"
    /\ ret'[i].current_version = "1.0"
    /\ METADATA_SCHEMA_VERSION = "2.0"

C23_LegacyDeleted ==
    [][ \A i \in Stores :
          ( /\ Constructs(i)
            /\ ret'[i].op = "construct"
            /\ ret'[i].current_version = None
            /\ db.tables # {} ) =>
              /\ db'.tables = CanonicalTables
              /\ db'.hosts = {} /\ db'.service_namespaces = {}
              /\ db'.services = {} /\ db'.metrics = {}
              /\ db'.format_rules = default_rules
              /\ Len(db'.schema_version) = MigrationTicks(None, METADATA_SCHEMA_VERSION)
              /\ \A k \in 1..Len(db'.schema_version) : db'.schema_version[k].created_date >= clock
      ]_vars

\* a store was constructed on a file without a version that held rows, and
\* the file now holds the canonical tables and no row
C23_Witness ==
    \E i \in Stores :
        /\ ret[i].op = "construct"
        /\ ret[i].current_version = None
        /\ ret[i].rows >= 2
        /\ db.tables = CanonicalTables
        /\ db.services = {} /\ db.metrics = {}
        /\ db.format_rules = default_rules

\* C30: when the read of the current schema version fails at the start on
\* a database that is at the target version, the construction keeps the
\* file: every host, namespace, service and metric row is still there.
C30_ReadErrorKeepsData ==
    [][ \A i \in Stores :
          ( /\ ~stores[i].up
            /\ ret'[i].op = "construct_unread"
            /\ CurrentSchemaVersions(db) = {METADATA_SCHEMA_VERSION} ) =>
              /\ db.hosts \subseteq db'.hosts
              /\ db.service_namespaces \subseteq db'.service_namespaces
              /\ db.services \subseteq db'.services
              /\ db.metrics \subseteq db'.metrics ]_vars

\* version and description arguments of get_or_create_service
Versions == { "", "1.1" }
Descriptions == { "", "web" }

\* the service row with an identifier
ServiceRow(d, id) == CHOOSE row \in d.services : row.id = id

\* instance i completes a get_or_create_service that found the service
ServiceHit(i) ==
    /\ pending[i] # NoPending
    /\ pending[i].op = "service"
    /\ pending[i].found # 0
    /\ pending'[i] = NoPending
    /\ ~ret'[i].err

\* C24: a get_or_create_service that finds the service keeps the stored
\* version and description when the caller passes empty ones and replaces
\* them when the caller passes non-empty ones; display_name, host_id,
\* namespace_id and last_seen take the values of this call; id, full_name
\* and first_seen stay.
C24_ServiceHit ==
    [][ \A i \in Stores : ServiceHit(i) =>
          LET p == pending[i]
              old == ServiceRow(db, p.found)
              new == ServiceRow(db', p.found)
          IN  /\ Cardinality(db'.services) = Cardinality(db.services)
              /\ new.version = IF p.given.version = "" THEN old.version ELSE p.given.version
              /\ new.description = IF p.given.description = "" THEN old.description
                                   ELSE p.given.description
              /\ new.display_name = p.display_name
              /\ new.host_id = p.host_id
              /\ new.namespace_id = p.namespace_id
              /\ new.last_seen = p.now
              /\ new.full_name = old.full_name
              /\ new.first_seen = old.first_seen
              /\ ret'[i].id = old.id ]_vars

\* a call hit a service of the earlier run, no host given, and the row
\* holds a version and a description that a call of this run passed
C24_Witness ==
    \E i \in Stores :
        /\ ret[i].op = "service" /\ ~ret[i].err
        /\ \E row \in db.services :
              /\ row.id = ret[i].id
              /\ row.version = "1.1" /\ row.description = "web"
              /\ row.last_seen > row.first_seen
              /\ row.host_id = 0
              /\ row.id < 0

\* instance i completes a get_or_create_metric that found the metric, on a
\* metrics table that has the otel_type column
MetricHit(i) ==
    /\ pending[i] # NoPending
    /\ pending[i].op = "metric"
    /\ pending[i].found # 0
    /\ pending'[i] = NoPending
    /\ ~ret'[i].err
    /\ "otel_type" \in db.metrics_columns

\* C25: an upsert of a metric that exists for the service leaves the stored
\* otel_type, decimal_places, is_percentage and is_counter equal to the
\* values of the call, and returns the identifier the row had.
C25_MetricHitRefreshes ==
    [][ \A i \in Stores : MetricHit(i) =>
          /\ ret'[i].id = pending[i].found
          /\ \A row \in db'.metrics : row.id = pending[i].found =>
                /\ row.otel_type = pending[i].otel_type
                /\ row.decimal_places = pending[i].decimal_places
                /\ row.is_percentage = pending[i].is_percentage
                /\ row.is_counter = pending[i].is_counter ]_vars

(***************************************************************************)
(*                 toml_utils.py: expand_metric_patterns                   *)
(***************************************************************************)

\* longest catalog
MaxDefs == 2

INDEX == "{index}"

\* name / description templates are sequences of text pieces; INDEX is the placeholder
StaticDefs ==
    { [name |-> <<"cpu_usage">>, description |-> <<"CPU usage">>, unit |-> "%"],
      [name |-> <<"thread_count">>, description |-> <<"Threads">>, unit |-> ""] }

PatternTypes == {"indexed", "regex"}
PatternSources == {"cpu_count", "disk_count"}
\* pattern_range "<start>-<end>": the two parts around the dash
RangeStarts == {"0", "1"}
RangeEnds == {"auto", "1", "3"}

TemplatedDefs ==
    [ name : { <<"cpu_core_", INDEX>> },
      description : { <<"CPU core ", INDEX, " of ", INDEX>> },
      unit : {"%"},
      pattern_type : PatternTypes,
      pattern_source : PatternSources,
      pattern_range : RangeStarts \X RangeEnds ]

MetricDefs == StaticDefs \cup TemplatedDefs

Catalogs == UNION { [1..n -> MetricDefs] : n \in 0..MaxDefs }

\* what os.cpu_count() may answer; 0 stands for None
CpuCounts == {0, 1, 2, 4}

DigitChars == <<"0", "1", "2", "3", "4", "5", "6", "7", "8", "9">>

\* int(text) for the decimal strings of the catalog
ParseInt(text) == CHOOSE n \in 0..9 : DigitChars[n + 1] = text

\* str(i)
RECURSIVE IntToStr(_)
IntToStr(n) ==
    IF n < 10 THEN DigitChars[n + 1]
    ELSE IntToStr(n \div 10) \o DigitChars[(n % 10) + 1]

\* template.replace('{index}', str(i))
Substitute(template, i) ==
    [k \in 1..Len(template) |-> IF template[k] = INDEX THEN IntToStr(i) ELSE template[k]]

\* a buggy variant that forgets the +1 of the inclusive end
parse_range_exclusive(range_spec, max_count) ==
    <<ParseInt(range_spec[1]),
      IF range_spec[2] = "auto" THEN max_count ELSE ParseInt(range_spec[2])>>

\* _parse_range: (start, end) as handed to range(start, end)
parse_range(range_spec, max_count) ==
    <<ParseInt(range_spec[1]),
      IF range_spec[2] = "auto" THEN max_count ELSE ParseInt(range_spec[2]) + 1>>

\* max_count for a pattern source: os.cpu_count() or 1; 1 for an unsupported source
MaxCount(source, ncpu) ==
    IF source = "cpu_count" THEN (IF ncpu = 0 THEN 1 ELSE ncpu) ELSE 1

\* expanded_metric = metric_def.copy() with name / description substituted
\* and the pattern fields popped
ExpandedMetric(metric_def, i) ==
    [ name |-> Substitute(metric_def.name, i),
      description |-> Substitute(metric_def.description, i),
      unit |-> metric_def.unit ]

\* for i in range(start_idx, end_idx): expanded_metrics.append(...)
RECURSIVE GenerateRange(_, _, _)
GenerateRange(metric_def, i, end_idx) ==
    IF i >= end_idx THEN <<>>
    ELSE <<ExpandedMetric(metric_def, i)>> \o GenerateRange(metric_def, i + 1, end_idx)

\* the body of the loop over metric_definitions, for one definition
ExpandOne(metric_def, ncpu) ==
    IF "pattern_type" \in DOMAIN metric_def
    THEN IF metric_def.pattern_type = "indexed"
         THEN LET r == parse_range(metric_def.pattern_range,
                                   MaxCount(metric_def.pattern_source, ncpu))
              IN  GenerateRange(metric_def, r[1], r[2])
         ELSE <<>>
    ELSE <<metric_def>>

RECURSIVE expand_metric_patterns(_, _)
expand_metric_patterns(defs, ncpu) ==
    IF defs = <<>> THEN <<>>
    ELSE ExpandOne(Head(defs), ncpu) \o expand_metric_patterns(Tail(defs), ncpu)

TomlInit ==
    /\ toml_pc = "ready"
    /\ metric_definitions \in Catalogs
    /\ cpu_count \in CpuCounts
    /\ expanded_metrics = <<>>

TomlOff ==
    /\ toml_pc = "off"
    /\ metric_definitions = <<>>
    /\ cpu_count = 1
    /\ expanded_metrics = <<>>

\* get_expanded_metrics(): the catalog is expanded
ExpandCatalog ==
    /\ toml_pc = "ready"
    /\ toml_pc' = "done"
    /\ expanded_metrics' = expand_metric_patterns(metric_definitions, cpu_count)
    /\ UNCHANGED <<metric_definitions, cpu_count>>

IsStatic(metric_def) == "pattern_type" \notin DOMAIN metric_def
IsIndexed(metric_def) == ~IsStatic(metric_def) /\ metric_def.pattern_type = "indexed"

\* first and last index the claim gives for an indexed definition
FirstIndex(metric_def) == ParseInt(metric_def.pattern_range[1])
LastIndex(metric_def) ==
    IF metric_def.pattern_range[2] = "auto"
    THEN MaxCount(metric_def.pattern_source, cpu_count) - 1
    ELSE ParseInt(metric_def.pattern_range[2])

\* number of definitions the claim gives for one catalog entry (a templated
\* entry of another pattern type yields none)
Yield(metric_def) ==
    IF IsStatic(metric_def) THEN 1
    ELSE IF IsIndexed(metric_def) /\ LastIndex(metric_def) >= FirstIndex(metric_def)
         THEN LastIndex(metric_def) - FirstIndex(metric_def) + 1
         ELSE 0

RECURSIVE Offset(_)
\* position in the expanded list just before the output of catalog entry k
Offset(k) == IF k = 1 THEN 0 ELSE Offset(k - 1) + Yield(metric_definitions[k - 1])

\* C9: static definitions pass through unchanged and in order; an indexed
\* definition is replaced by one definition per index s..N-1 ("s-auto") or
\* s..e ("s-e"), index substituted in name and description, pattern fields
\* removed.
C9_Expansion ==
    toml_pc = "done" =>
        /\ Len(expanded_metrics) = Offset(Len(metric_definitions) + 1)
        /\ \A k \in 1..Len(metric_definitions) :
              LET def == metric_definitions[k]
              IN  /\ IsStatic(def) => expanded_metrics[Offset(k) + 1] = def
                  /\ IsIndexed(def) =>
                        \A j \in 1..Yield(def) :
                           LET out == expanded_metrics[Offset(k) + j]
                               idx == FirstIndex(def) + j - 1
                           IN  /\ DOMAIN out = {"name", "description", "unit"}
                               /\ out.name = <<"cpu_core_", IntToStr(idx)>>
                               /\ out.description =
                                     <<"CPU core ", IntToStr(idx), " of ", IntToStr(idx)>>
                               /\ out.unit = def.unit

\* "0-auto" on 4 cores gave cpu_core_0..cpu_core_3, after a static entry
C9_Witness ==
    /\ toml_pc = "done"
    /\ cpu_count = 4
    /\ Len(metric_definitions) = 2
    /\ IsStatic(metric_definitions[1])
    /\ IsIndexed(metric_definitions[2])
    /\ metric_definitions[2].pattern_source = "cpu_count"
    /\ metric_definitions[2].pattern_range = <<"0", "auto">>
    /\ Len(expanded_metrics) = 5
    /\ expanded_metrics[5].name = <<"cpu_core_", "3">>

\* an inclusive "1-3" range was expanded
C9_WitnessInclusive ==
    /\ toml_pc = "done"
    /\ \E k \in 1..Len(metric_definitions) :
          /\ IsIndexed(metric_definitions[k])
          /\ metric_definitions[k].pattern_range = <<"1", "3">>
          /\ Yield(metric_definitions[k]) = 3

\* the pattern sources expand_metric_patterns knows how to count
SupportedSources == {"cpu_count"}

\* C18: expanding a catalog that holds an indexed definition with an
\* unsupported pattern_source fails: expand_metric_patterns does not return
\* an expanded catalog for it.
C18_UnsupportedSourceFatal ==
    (\E k \in 1..Len(metric_definitions) :
        /\ IsIndexed(metric_definitions[k])
        /\ metric_definitions[k].pattern_source \notin SupportedSources)
      => toml_pc # "done"

(***************************************************************************)
(* MetadataStore.format_metric_value (metadata_store.py 1242-1270).        *)
(* Values are fixed-point integers in thousandths; a formatted value is a  *)
(* record of the number and whether Python returned an int.  The binary    *)
(* representation error of floats is not modelled.                         *)
(***************************************************************************)

\* 1.0 in thousandths
One == 1000

\* the raw values a collector hands over: fractions, ties, values above 1.0
Values == {-500, 5, 125, 750, 753, 755, 1000, 1001, 2500, 75000, 75123, 75500, 75600, 75789}

DecimalPlaces == {0, 1, 2}

\* 10 ** n
Pow10(n) == IF n = 0 THEN 1 ELSE IF n = 1 THEN 10 ELSE IF n = 2 THEN 100 ELSE 1000

\* Python round(v, d) on thousandths: nearest multiple of 10 ** (3 - d),
\* ties to the even multiple
RoundTo(v, d) ==
    LET unit == Pow10(3 - d)
        q == v \div unit
        r == v % unit
    IN  IF 2 * r < unit THEN q * unit
        ELSE IF 2 * r > unit THEN (q + 1) * unit
        ELSE IF q % 2 = 0 THEN q * unit ELSE (q + 1) * unit

\* lines 1262-1263 without the value <= 1.0 test
ScaleAlways(v, pct) == IF pct THEN v * 100 ELSE v

\* lines 1262-1263: a fraction becomes a percentage
Scale(v, pct) == IF pct /\ v <= One THEN v * 100 ELSE v

\* lines 1265-1270
format_metric_value(v, pct, counter, places) ==
    IF counter
    THEN [number |-> RoundTo(Scale(v, pct), 0), int |-> TRUE]
    ELSE [number |-> RoundTo(Scale(v, pct), places), int |-> FALSE]

NoValue == [number |-> 0, int |-> FALSE]

FmtInit ==
    /\ fmt_pc = "ready"
    /\ value \in Values
    /\ is_percentage \in BOOLEAN
    /\ is_counter \in BOOLEAN
    /\ decimal_places \in DecimalPlaces
    /\ fmt_result = NoValue
    /\ fmt_again = NoValue

\* the subsystem at rest
FmtOff ==
    /\ fmt_pc = "off"
    /\ value = 0
    /\ is_percentage = FALSE
    /\ is_counter = FALSE
    /\ decimal_places = 2
    /\ fmt_result = NoValue
    /\ fmt_again = NoValue

\* a callback formats the raw value
Format ==
    /\ fmt_pc = "ready"
    /\ fmt_result' = format_metric_value(value, is_percentage, is_counter, decimal_places)
    /\ fmt_pc' = "once"
    /\ UNCHANGED <<value, is_percentage, is_counter, decimal_places, fmt_again>>

\* the formatted value is formatted once more with the same flags
FormatAgain ==
    /\ fmt_pc = "once"
    /\ fmt_again' = format_metric_value(fmt_result.number, is_percentage, is_counter, decimal_places)
    /\ fmt_pc' = "twice"
    /\ UNCHANGED <<value, is_percentage, is_counter, decimal_places, fmt_result>>

\* the value the rounding step receives, stated from the two cases of the claim
Scaled == IF is_percentage /\ value <= One THEN 100 * value ELSE value

\* n is a nearest multiple of unit to v
IsNearest(n, v, unit) == n % unit = 0 /\ 2 * n <= 2 * v + unit /\ 2 * n >= 2 * v - unit

\* C12: format_metric_value multiplies by 100 exactly when is_percentage is
\* set and the value is at most 1.0; a counter is returned as the nearest
\* integer, anything else rounded to decimal_places; re-applying it with
\* the same flags to a result above 1.0 returns the result unchanged.
C12_Format ==
    /\ fmt_pc \in {"once", "twice"} =>
          /\ fmt_result.int = is_counter
          /\ is_counter => IsNearest(fmt_result.number, Scaled, One)
          /\ ~is_counter => IsNearest(fmt_result.number, Scaled, Pow10(3 - decimal_places))
          /\ (value > One /\ Scaled % Pow10(3 - decimal_places) = 0 /\ ~is_counter)
                => fmt_result.number = value
    /\ (fmt_pc = "twice" /\ fmt_result.number > One) => fmt_again = fmt_result

\* a fraction was scaled to 75.0, and formatting 75.0 again left it alone
C12_Witness ==
    /\ fmt_pc = "twice"
    /\ value = 750 /\ is_percentage /\ ~is_counter
    /\ fmt_result = [number |-> 75000, int |-> FALSE]
    /\ fmt_again = fmt_result

(***************************************************************************)
(* otel_connector.py: InstanaOTelConnector.record_metrics, the per-metric  *)
(* callbacks and the general callback.  Metric names are strings; numbers  *)
(* are in thousandths, with a flag for a Python int.                       *)
(***************************************************************************)

OPENTELEMETRY_AVAILABLE == TRUE

\* a number / a string as a dictionary value
Num(n, isint) == [kind |-> "number", number |-> n, int |-> isint, text |-> <<>>]
Str(text) == [kind |-> "str", number |-> 0, int |-> FALSE, text |-> text]

\* str(pid) as a sequence of characters
RECURSIVE DigitsOf(_)
DigitsOf(n) ==
    IF n < 10 THEN <<DigitChars[n + 1]>>
    ELSE DigitsOf(n \div 10) \o <<DigitChars[(n % 10) + 1]>>

\* ",".join(process_pids)
RECURSIVE JoinPids(_)
JoinPids(pids) ==
    IF pids = <<>> THEN <<>>
    ELSE IF Len(pids) = 1 THEN DigitsOf(pids[1])
    ELSE DigitsOf(pids[1]) \o <<",">> \o JoinPids(Tail(pids))

\* str.isdigit()
isdigit(text) == text # <<>> /\ \A k \in 1..Len(text) : text[k] \in SeqRange(DigitChars)

\* float(text) of a digit string, in units
RECURSIVE ParseDigits(_)
ParseDigits(text) ==
    IF text = <<>> THEN 0
    ELSE 10 * ParseDigits(SubSeq(text, 1, Len(text) - 1)) + ParseInt(text[Len(text)])

\* the dictionary get_process_metrics returns (process_monitor.py 217-228),
\* as the connector receives it
SnapshotDict(m) ==
    [n \in {"cpu_usage", "memory_usage", "process_count", "monitored_pids"} |->
        CASE n = "cpu_usage"      -> Num(10 * m.cpu_usage, FALSE)
          [] n = "memory_usage"   -> Num(10 * m.memory_usage, FALSE)
          [] n = "process_count"  -> Num(One * m.process_count, TRUE)
          [] n = "monitored_pids" -> Str(JoinPids(m.monitored_pids))]

\* expected_metrics of _register_observable_metrics, on a one-core machine
expected_metrics ==
    {"cpu_usage", "memory_usage", "process_count", "disk_read_bytes", "disk_write_bytes",
     "open_file_descriptors", "thread_count", "voluntary_ctx_switches",
     "nonvoluntary_ctx_switches", "cpu_core_0"}

percentage_metrics == {"cpu_usage", "memory_usage", "cpu_core_0"}

counter_metrics ==
    {"process_count", "disk_read_bytes", "disk_write_bytes", "open_file_descriptors",
     "thread_count", "voluntary_ctx_switches", "nonvoluntary_ctx_switches",
     "max_threads_per_process", "min_threads_per_process"}

general_metrics == "service.general_metrics"

\* the expected metrics whose registration may raise in _register_observable_metrics
\* (the loop logs the error and continues): none, or all but three
SetupFailures == { {}, expected_metrics \ {"cpu_usage", "memory_usage", "process_count"} }

\* _metrics_registry after _register_observable_metrics
RegistryAfterSetup(failed) == (expected_metrics \ failed) \cup {general_metrics}

\* the branch of the loop of record_metrics that stores a value
IsStored(v) == v.kind = "number" \/ (v.kind = "str" /\ isdigit(v.text))

\* what is stored: the value itself, or float(value)
StoredValue(v) ==
    IF v.kind = "number" THEN [number |-> v.number, int |-> v.int]
    ELSE [number |-> One * ParseDigits(v.text), int |-> FALSE]

\* _register_metric_if_new
IsRegisteredIfNew(registry, name) == name \notin registry /\ name # "monitored_pids"

\* record_metrics(batch): the new _metrics_state and _metrics_registry;
\* registration_error: _register_new_metric logs an exception and adds nothing
record_metrics(state, registry, batch, registration_error) ==
    LET stored == { n \in DOMAIN batch : IsStored(batch[n]) }
    IN  IF ~OPENTELEMETRY_AVAILABLE \/ DOMAIN batch = {}
        THEN [state |-> state, registry |-> registry]
        ELSE [state |-> [n \in DOMAIN state \cup stored |->
                            IF n \in stored THEN StoredValue(batch[n]) ELSE state[n]],
              registry |-> registry \cup
                  (IF registration_error THEN {}
                   ELSE { n \in stored : IsRegisteredIfNew(registry, n) })]

\* the flags a gauge callback was created with
DecimalPlacesOf(name) == IF name \in counter_metrics THEN 0 ELSE 2

\* the callback of _create_metric_callback(name, ...)
MetricCallback(state, name) ==
    IF name \notin DOMAIN state THEN {}
    ELSE { [metric_name |-> name, via |-> "gauge",
            value |-> IF name \in percentage_metrics \/ name \in counter_metrics
                      THEN format_metric_value(state[name].number, name \in percentage_metrics,
                                               name \in counter_metrics, DecimalPlacesOf(name))
                      ELSE state[name]] }

\* general_callback: every entry of _metrics_state outside expected_metrics
general_callback(state) ==
    { [metric_name |-> n, via |-> "general", value |-> state[n]] :
        n \in DOMAIN state \ expected_metrics }

\* the names a caller may pass, and the values: a float, an int, a decimal
\* string, a digit string, a word
BatchNames == {"cpu_usage", "unknown_metric", "monitored_pids"}
BatchValues ==
    { Num(42000, FALSE), Num(3000, TRUE), Str(<<"1", "0", ".", "5">>), Str(<<"7">>),
      Str(<<"t", "e", "x", "t">>) }
Absent == Str(<<>>)
Batches ==
    { [n \in { m \in BatchNames : f[m] # Absent } |-> f[n]] :
        f \in [BatchNames -> BatchValues \cup {Absent}] }

NoBatch == [n \in {} |-> Absent]

\* a connector after construction, about to be handed a dictionary
OtelInit ==
    /\ otel_pc = "ready"
    /\ recorded \in Batches
    /\ metrics_state = NoBatch
    /\ \E failed \in SetupFailures : metrics_registry = RegistryAfterSetup(failed)
    /\ observations = {}

\* a connector after construction in the sensor loop: the dictionary will
\* come from get_process_metrics
OtelInitSensor ==
    /\ otel_pc = "ready"
    /\ recorded = NoBatch
    /\ metrics_state = NoBatch
    /\ metrics_registry = RegistryAfterSetup({})
    /\ observations = {}

OtelOff ==
    /\ otel_pc = "off"
    /\ recorded = NoBatch
    /\ metrics_state = NoBatch
    /\ metrics_registry = {}
    /\ observations = {}

\* connector.record_metrics(recorded)
RecordMetrics(registration_error) ==
    LET r == record_metrics(metrics_state, metrics_registry, recorded, registration_error)
    IN  /\ otel_pc = "ready"
        /\ otel_pc' = "recorded"
        /\ metrics_state' = r.state
        /\ metrics_registry' = r.registry
        /\ UNCHANGED <<recorded, observations>>

\* collect_and_report (base_sensor.py 184-188): metrics = get_process_metrics(...);
\* if metrics: connector.record_metrics(metrics)
RecordSnapshot(registration_error) ==
    LET batch == SnapshotDict(metrics)
        r == record_metrics(metrics_state, metrics_registry, batch, registration_error)
    IN  /\ pm_pc = "done"
        /\ metrics # NoMetrics
        /\ otel_pc = "ready"
        /\ otel_pc' = "recorded"
        /\ recorded' = batch
        /\ metrics_state' = r.state
        /\ metrics_registry' = r.registry
        /\ UNCHANGED observations

\* the periodic export: the SDK runs the callback of every gauge
Observe ==
    /\ otel_pc = "recorded"
    /\ otel_pc' = "observed"
    /\ observations' =
          UNION { MetricCallback(metrics_state, n) : n \in metrics_registry \ {general_metrics} }
          \cup (IF general_metrics \in metrics_registry THEN general_callback(metrics_state)
                ELSE {})
    /\ UNCHANGED <<recorded, metrics_state, metrics_registry>>

\* C15: monitored_pids is never stored in the numeric metric state and is
\* never yielded as an observation by any callback.
C15_PidsNotNumeric ==
    /\ "monitored_pids" \notin DOMAIN metrics_state
    /\ \A o \in observations : o.metric_name # "monitored_pids"

\* C17: record_metrics stores values only under names that are already in
\* the registry; a name outside the registry changes neither the state nor
\* the registry; a value that is not a number is never stored.
C17_RegisteredOnly ==
    [][ (otel_pc = "ready" /\ otel_pc' = "recorded") =>
          /\ \A n \in DOMAIN metrics_state' :
                n \notin DOMAIN metrics_state => n \in metrics_registry
          /\ metrics_registry' = metrics_registry
          /\ \A n \in DOMAIN recorded' :
                (recorded'[n].kind = "str" /\ ~isdigit(recorded'[n].text))
                   => n \notin DOMAIN metrics_state' ]_vars

\* the 0-100 percentage get_process_metrics computed under a name
ComputedPercentage(name) ==
    CASE name = "cpu_usage" -> 10 * metrics.cpu_usage
      [] name = "memory_usage" -> 10 * metrics.memory_usage

\* C28: for the percentage metrics the value a gauge callback yields is the
\* 0-100 percentage that get_process_metrics computed and record_metrics
\* stored, rounded to 2 decimals, values at or below 1.0 included.
C28_PercentageAsStored ==
    \A o \in observations :
        (o.via = "gauge" /\ o.metric_name \in {"cpu_usage", "memory_usage"}) =>
            /\ metrics_state[o.metric_name].number = ComputedPercentage(o.metric_name)
            /\ o.value.number = RoundTo(ComputedPercentage(o.metric_name), 2)

\* the registry names of the model as the connector spells them
NameText(name) ==
    CASE name = cpu_usage -> "cpu_usage"
      [] name = disk_read_bytes -> "disk_read_bytes"
      [] name = cpu_core_0 -> "cpu_core_0"
      [] name = Io_Write -> "Io_Write"

\* the arguments _register_observable_metrics and _register_new_metric pass
\* to get_or_create_metric: otel_type is not passed and takes its default
RegistrationArgs(name) ==
    LET pct == NameText(name) \in percentage_metrics
        counter == NameText(name) \in counter_metrics
    IN  [unit |-> IF pct THEN "%" ELSE "",
         format_type |-> IF counter THEN "counter"
                         ELSE IF pct THEN "percentage" ELSE "number",
         decimal_places |-> IF counter THEN 0 ELSE 2,
         is_percentage |-> pct,
         is_counter |-> counter,
         otel_type |-> "Gauge"]

\* the connector of instance i registers a metric of its service
RegisterMetric(i, service_id, name) ==
    GetOrCreateMetric(i, service_id, name, RegistrationArgs(name))

\* C29: a registration of the connector leaves every metric row that
\* existed before with the otel_type it had.
C29_RegistrationKeepsType ==
    [][ \A i \in Stores :
          (pending[i] # NoPending /\ pending[i].op = "metric" /\ pending'[i] = NoPending) =>
             \A row \in db.metrics :
                \E kept \in db'.metrics : kept.id = row.id /\ kept.otel_type = row.otel_type
      ]_vars

(***************************************************************************)
(* base_sensor.py: monitor_process, the collection loop (159-222).         *)
(* Time is counted in units; a sleep that returns has taken the interval.  *)
(***************************************************************************)

\* most cycles followed
MaxCycles == 3

\* the interval argument
Intervals == {1, 2}

\* how long a collection cycle may take
Durations == {0, 1}

\* how collect_and_report may end: it returns True, returns False without
\* metrics, returns False after an exception it caught; KeyboardInterrupt
\* passes through it; an exception raised in its own handler escapes it
CycleResults == {"sent", "no_metrics", "error", "keyboard_interrupt", "escaped"}

\* how time.sleep may end
SleepResults == {"slept", "keyboard_interrupt", "error"}

\* a buggy handler that retries at once
HandlerDelayNone(seconds) == 0

\* line 214, time.sleep(interval) in the handler of the loop
HandlerDelay(seconds) == seconds

\* monitor_process is called: the connector is constructed
LoopInit ==
    /\ loop_pc = "top"
    /\ run_once \in BOOLEAN
    /\ interval \in Intervals
    /\ cycles = 0
    /\ last_result = "none"
    /\ elapsed = 0
    /\ finished_at = 0

LoopOff ==
    /\ loop_pc = "off"
    /\ run_once = FALSE
    /\ interval = 1
    /\ cycles = 0
    /\ last_result = "none"
    /\ elapsed = 0
    /\ finished_at = 0

\* collect_and_report() is called
StartCycle ==
    /\ loop_pc = "top"
    /\ cycles < MaxCycles
    /\ loop_pc' = "collecting"
    /\ cycles' = cycles + 1
    /\ UNCHANGED <<run_once, interval, last_result, elapsed, finished_at>>

\* collect_and_report() ends: with run_once its result is returned, else
\* the loop sleeps, breaks on KeyboardInterrupt, or enters its handler
FinishCycle(result, duration) ==
    /\ loop_pc = "collecting"
    /\ loop_pc' = IF run_once \/ result = "keyboard_interrupt" THEN "shutdown"
                  ELSE IF result = "escaped" THEN "handler_sleep"
                  ELSE "sleep"
    /\ last_result' = result
    /\ elapsed' = elapsed + duration
    /\ finished_at' = elapsed + duration
    /\ UNCHANGED <<run_once, interval, cycles>>

\* line 207, time.sleep(interval) after a cycle; a sleep that is cut short
\* has taken less than the interval
Sleep(result, partial) ==
    /\ loop_pc = "sleep"
    /\ partial < interval
    /\ loop_pc' = CASE result = "slept" -> "top"
                    [] result = "keyboard_interrupt" -> "shutdown"
                    [] result = "error" -> "handler_sleep"
    /\ elapsed' = elapsed + (IF result = "slept" THEN interval ELSE partial)
    /\ UNCHANGED <<run_once, interval, cycles, last_result, finished_at>>

\* lines 212-214, except Exception: log, time.sleep(interval); what the
\* sleep of the handler raises leaves the loop
HandlerSleep(result, partial) ==
    /\ loop_pc = "handler_sleep"
    /\ partial < interval
    /\ loop_pc' = IF result = "slept" THEN "top" ELSE "shutdown"
    /\ elapsed' = elapsed + (IF result = "slept" THEN HandlerDelay(interval) ELSE partial)
    /\ UNCHANGED <<run_once, interval, cycles, last_result, finished_at>>

\* finally: connector.shutdown()
Shutdown ==
    /\ loop_pc = "shutdown"
    /\ loop_pc' = "returned"
    /\ UNCHANGED <<run_once, interval, cycles, last_result, elapsed, finished_at>>

\* C26: in continuous mode a collection cycle starts only when no cycle is
\* running and, after the first, only when at least one interval has
\* passed since the previous cycle ended, however that cycle ended.
C26_FullInterval ==
    [][ (loop_pc' = "collecting" /\ loop_pc # "collecting") =>
          /\ loop_pc = "top"
          /\ cycles > 0 => (~run_once /\ elapsed - finished_at >= interval) ]_vars

\* a third cycle is running after a cycle that raised into the handler of
\* the loop, one interval of 2 after that cycle ended
C26_Witness ==
    /\ loop_pc = "collecting"
    /\ cycles = 3
    /\ last_result = "escaped"
    /\ interval = 2
    /\ elapsed - finished_at = 2

(***************************************************************************)
(*                        Specifications                                   *)
(***************************************************************************)

InitPM == PmInit /\ SanOff /\ TomlOff /\ DbOff /\ FmtOff /\ OtelOff /\ LoopOff

NextPM == get_process_metrics /\ UNCHANGED nonPmVars

SpecPM == InitPM /\ [][NextPM]_vars

InitSan == SanInit /\ PmOff /\ TomlOff /\ DbOff /\ FmtOff /\ OtelOff /\ LoopOff

NextSan ==
    \/ Sanitize /\ UNCHANGED nonSanVars
    \/ SanitizeAgain /\ UNCHANGED nonSanVars

SpecSan == InitSan /\ [][NextSan]_vars

InitToml == TomlInit /\ PmOff /\ SanOff /\ DbOff /\ FmtOff /\ OtelOff /\ LoopOff

NextToml == ExpandCatalog /\ UNCHANGED nonTomlVars

SpecToml == InitToml /\ [][NextToml]_vars

InitStore == DbInit /\ PmOff /\ SanOff /\ TomlOff /\ FmtOff /\ OtelOff /\ LoopOff

\* the processes that share the database file: each constructs its store,
\* upserts, and exits
NextStore ==
    \E i \in Stores :
        \/ Construct(i) /\ UNCHANGED nonDbVars
        \/ Close(i) /\ UNCHANGED nonDbVars
        \/ \E hostname \in Hostnames :
              HostLookup(i, hostname) /\ UNCHANGED nonDbVars
        \/ \E namespace \in Namespaces :
              NamespaceLookup(i, namespace) /\ UNCHANGED nonDbVars
        \/ \E full_name \in ServiceNames, hostname \in Hostnames \cup {<<>>} :
              ServiceLookup(i, full_name, "", "", hostname, <<>>, FALSE, FALSE)
              /\ UNCHANGED nonDbVars
        \/ \E service_id \in ServiceIds, name \in MetricNames :
              \E args \in MetricArgs(name) :
                 GetOrCreateMetric(i, service_id, name, args)
                 /\ UNCHANGED nonDbVars
        \/ \E storage_error \in BOOLEAN :
              FinishUpsert(i, storage_error) /\ UNCHANGED nonDbVars

SpecStore == InitStore /\ [][NextStore]_vars

InitRecon == DbSeeded /\ PmOff /\ SanOff /\ TomlOff /\ FmtOff /\ OtelOff /\ LoopOff

\* one process on the database of an earlier run: it reconciles a service
\* with an expanded catalog
NextRecon ==
    \/ \E service_id \in ServiceIds, catalog \in ReconCatalogs :
          StartReconcile(1, service_id, catalog) /\ UNCHANGED nonDbVars
    \/ ReconcileSync /\ UNCHANGED nonDbVars
    \/ \E storage_error \in BOOLEAN :
          FinishUpsert(1, storage_error) /\ UNCHANGED nonDbVars
    \/ \E storage_error \in BOOLEAN :
          ReconcileRemove(storage_error) /\ UNCHANGED nonDbVars

SpecRecon == InitRecon /\ [][NextRecon]_vars

InitRemove == DbSeeded /\ PmOff /\ SanOff /\ TomlOff /\ FmtOff /\ OtelOff /\ LoopOff

\* one process on the database of an earlier run: it removes the metrics
\* of a service that are not in a set of names
NextRemove ==
    \E service_id \in ServiceIds, names \in SUBSET MetricNames, storage_error \in BOOLEAN :
        RemoveObsolete(1, service_id, names, storage_error)
        /\ UNCHANGED nonDbVars

SpecRemove == InitRemove /\ [][NextRemove]_vars

InitMigrate == MigInit /\ PmOff /\ SanOff /\ TomlOff /\ FmtOff /\ OtelOff /\ LoopOff

\* the processes of successive runs on one database file, with the release
\* of the plug-in changing between runs
NextMigrate ==
    \/ \E i \in Stores :
          \/ Construct(i) /\ UNCHANGED nonDbVars
          \/ ConstructFails(i) /\ UNCHANGED nonDbVars
          \/ Close(i) /\ UNCHANGED nonDbVars
    \/ \E version \in ManifestVersions : Reconfigure(version) /\ UNCHANGED nonDbVars

SpecMigrate == InitMigrate /\ [][NextMigrate]_vars

InitWallClock == MigInit /\ PmOff /\ SanOff /\ TomlOff /\ FmtOff /\ OtelOff /\ LoopOff

\* successive runs on one database file, under a wall clock that may answer
\* two successive readings alike
NextWallClock ==
    \/ \E i \in Stores :
          \/ Construct(i) /\ UNCHANGED nonDbVars
          \/ ConstructTied(i) /\ UNCHANGED nonDbVars
          \/ Close(i) /\ UNCHANGED nonDbVars
    \/ \E version \in ManifestVersions : Reconfigure(version) /\ UNCHANGED nonDbVars

SpecWallClock == InitWallClock /\ [][NextWallClock]_vars

InitUpgrade == UpgradeInit /\ PmOff /\ SanOff /\ TomlOff /\ FmtOff /\ OtelOff /\ LoopOff

\* starts of the process on a file an earlier run left behind
NextUpgrade ==
    \E i \in Stores :
        \/ Construct(i) /\ UNCHANGED nonDbVars
        \/ ConstructFails(i) /\ UNCHANGED nonDbVars
        \/ Close(i) /\ UNCHANGED nonDbVars

SpecUpgrade == InitUpgrade /\ [][NextUpgrade]_vars

InitUnread == UpgradeInit /\ PmOff /\ SanOff /\ TomlOff /\ FmtOff /\ OtelOff /\ LoopOff

\* starts of the process while other processes write to the file
NextUnread ==
    \E i \in Stores :
        \/ Construct(i) /\ UNCHANGED nonDbVars
        \/ ConstructUnread(i) /\ UNCHANGED nonDbVars
        \/ Close(i) /\ UNCHANGED nonDbVars

SpecUnread == InitUnread /\ [][NextUnread]_vars

InitService == DbSeeded /\ db.metrics = {} /\ PmOff /\ SanOff /\ TomlOff /\ FmtOff /\ OtelOff /\ LoopOff

\* one process on the database of an earlier run registers its service
\* again and again, with and without version, description, host and namespace
NextService ==
    \/ \E full_name \in ServiceNames, version \in Versions, description \in Descriptions,
          hostname \in Hostnames \cup {<<>>}, service_namespace \in Namespaces \cup {<<>>} :
          ServiceLookup(1, full_name, version, description, hostname, service_namespace,
                        FALSE, FALSE)
          /\ UNCHANGED nonDbVars
    \/ \E storage_error \in BOOLEAN :
          FinishUpsert(1, storage_error) /\ UNCHANGED nonDbVars

SpecService == InitService /\ [][NextService]_vars

InitRegister ==
    /\ UpgradeInit /\ db \in V1Dbs /\ METADATA_SCHEMA_VERSION = "2.0"
    /\ PmOff /\ SanOff /\ TomlOff /\ FmtOff /\ OtelOff /\ LoopOff

\* the 2.0 release starts on the file of the 1.0 release: the store is
\* constructed, then the connector registers its metrics
NextRegister ==
    \/ Construct(1) /\ UNCHANGED nonDbVars
    \/ \E service_id \in ServiceIds, name \in UpgradeNames :
          RegisterMetric(1, service_id, name) /\ UNCHANGED nonDbVars
    \/ \E storage_error \in BOOLEAN :
          FinishUpsert(1, storage_error) /\ UNCHANGED nonDbVars

SpecRegister == InitRegister /\ [][NextRegister]_vars

InitLoop == LoopInit /\ PmOff /\ SanOff /\ TomlOff /\ DbOff /\ FmtOff /\ OtelOff

\* monitor_process from its call to its return
NextLoop ==
    \/ StartCycle /\ UNCHANGED nonLoopVars
    \/ \E result \in CycleResults, duration \in Durations :
          FinishCycle(result, duration) /\ UNCHANGED nonLoopVars
    \/ \E result \in SleepResults, partial \in 0..1 :
          Sleep(result, partial) /\ UNCHANGED nonLoopVars
    \/ \E result \in SleepResults, partial \in 0..1 :
          HandlerSleep(result, partial) /\ UNCHANGED nonLoopVars
    \/ Shutdown /\ UNCHANGED nonLoopVars

SpecLoop == InitLoop /\ [][NextLoop]_vars

InitLookups == PmInitLookups /\ SanOff /\ TomlOff /\ DbOff /\ FmtOff /\ OtelOff /\ LoopOff

\* a collection cycle in which per-pid lookups fail
NextLookups == get_process_metrics /\ UNCHANGED nonPmVars

SpecLookups == InitLookups /\ [][NextLookups]_vars

InitRecord == OtelInit /\ PmOff /\ SanOff /\ TomlOff /\ DbOff /\ FmtOff /\ LoopOff

\* a caller hands a dictionary to a connector, then the exporter collects
NextRecord ==
    \/ \E registration_error \in BOOLEAN :
          RecordMetrics(registration_error) /\ UNCHANGED nonOtelVars
    \/ Observe /\ UNCHANGED nonOtelVars

SpecRecord == InitRecord /\ [][NextRecord]_vars

InitCollect == PmInit /\ OtelInitSensor /\ SanOff /\ TomlOff /\ DbOff /\ FmtOff /\ LoopOff

\* one collection cycle of a sensor: get_process_metrics, record_metrics on
\* its result, then the export
NextCollect ==
    \/ get_process_metrics /\ UNCHANGED nonPmVars
    \/ \E registration_error \in BOOLEAN :
          RecordSnapshot(registration_error) /\ UNCHANGED nonOtelVars
    \/ Observe /\ UNCHANGED nonOtelVars

SpecCollect == InitCollect /\ [][NextCollect]_vars

InitFmt == FmtInit /\ PmOff /\ SanOff /\ TomlOff /\ DbOff /\ OtelOff /\ LoopOff

NextFmt ==
    \/ Format /\ UNCHANGED nonFmtVars
    \/ FormatAgain /\ UNCHANGED nonFmtVars

SpecFmt == InitFmt /\ [][NextFmt]_vars

====
